---- MODULE Spec2Model ----
(***************************************************************************)
(* Flow-control core of gx (src/goconc_test.go): the token-bucket          *)
(* Throttler, the single-key Debouncer, the single-key Coalescer and the   *)
(* per-key manager DebouncerByKey, as state machines over goroutines,      *)
(* mutexes, timers and channels; and the id codec of package idcodec, as   *)
(* functions over words and byte strings.                                  *)
(*                                                                         *)
(* Each component has its own specification (SpecThrottler, SpecDebouncer, *)
(* SpecCoalescer, SpecByKey, SpecCodec); the variables of the other        *)
(* components stay at their initial value.                                 *)
(***************************************************************************)
EXTENDS Integers, Sequences, FiniteSets, TLC

VARIABLES
  thr,      \* the throttler struct: tokens, stop, stopOnce, onStop
  thrPc,    \* goroutines around a throttler: callers, refill loop, ctx
  thrObs,   \* history of a throttler run: results and counts of calls
  deb,      \* the debouncer struct
  debPc,    \* goroutines around a debouncer: callers, timerLoop, maxLoop, ctx
  debObs,   \* history of a debouncer run: callback invocations
  coa,      \* the coalescer struct
  coaPc,    \* goroutines around a coalescer: callers, loop, ctx
  coaObs,   \* history of a coalescer run: callback invocations
  bk,       \* the debouncerByKey struct, its nodes and their debouncers
  bkPc,     \* goroutines around a manager: callers, evictor, ctx; the clock
  bkObs,    \* history of a manager run
  cdc,      \* what NewCodecFromSecret returned: a Codec, or an error
  cdcIo,    \* the calls made on the codec: arguments and results
  mc,       \* a MultiCodec struct: Cur and Old
  mcIo      \* the calls made on the MultiCodec and its codecs

vars == <<thr, thrPc, thrObs, deb, debPc, debObs, coa, coaPc, coaObs,
          bk, bkPc, bkObs, cdc, cdcIo, mc, mcIo>>
thrVars == <<thr, thrPc, thrObs>>
debVars == <<deb, debPc, debObs>>
coaVars == <<coa, coaPc, coaObs>>
bkVars == <<bk, bkPc, bkObs>>
cdcVars == <<cdc, cdcIo>>
mcVars == <<mc, mcIo>>

\* The variables of all components but one.
notThr == <<debVars, coaVars, bkVars, cdcVars, mcVars>>
notDeb == <<thrVars, coaVars, bkVars, cdcVars, mcVars>>
notCoa == <<thrVars, debVars, bkVars, cdcVars, mcVars>>
notBk == <<thrVars, debVars, coaVars, cdcVars, mcVars>>
notCdc == <<thrVars, debVars, coaVars, bkVars, mcVars>>
notMc == <<thrVars, debVars, coaVars, bkVars, cdcVars>>

\* ------------------------------------------------------------------ bounds

\* Goroutines that call the public methods of one instance.
NumCallers == 2
Callers == 1..NumCallers

\* Largest opts.Burst tried; the smallest is -1, to meet the clamp of Burst < 1.
MaxBurst == 2
OptsBursts == -1..MaxBurst

\* TryAcquire calls recorded on a throttler no tick or Acquire has touched.
MaxTryLog == 3

\* ------------------------------------------------------------ stop modes

StopNoop == 0
StopFlush == 1
StopCallbackOnly == 2
StopFlushAndCallback == 3
StopModes == {StopNoop, StopFlush, StopCallbackOnly, StopFlushAndCallback}

\* ---------------------------------------------------------------- Throttler

\* NewThrottler: Burst < 1 becomes 1.
ClampBurst(b) == IF b < 1 THEN 1 ELSE b

\* NewThrottler: the bucket has capacity Burst and starts full; nothing is
\* stopped; refill runs.
NewThrottler(optsBurst, optsOnStop) ==
  [burst    |-> ClampBurst(optsBurst),
   tokens   |-> ClampBurst(optsBurst),
   stop     |-> FALSE,
   stopOnce |-> "new",
   onStop   |-> optsOnStop]

\* No call made, nothing observed.
ThrObsInit ==
  [fresh            |-> TRUE,
   tryLog           |-> <<>>,
   onStopBegun      |-> 0,
   onStopEnded      |-> 0,
   closes           |-> 0,
   stopReturned     |-> FALSE,
   acqAfterStop     |-> [c \in Callers |-> FALSE],
   tryAfterStop     |-> "none",
   acquireAfterStop |-> "none"]

\* The throttler of a run that is about another component: never used.
ThrIdle ==
  [thr    |-> NewThrottler(1, FALSE),
   thrPc  |-> [caller |-> [c \in Callers |-> "idle"],
               res    |-> [c \in Callers |-> "none"],
               refill |-> "done", ctx |-> FALSE],
   thrObs |-> ThrObsInit]

\* refill's inner select: deposit one token unless the channel is full.
RefillDepositAlways(t) == t.tokens + 1
RefillDeposit(t) == IF t.tokens < t.burst THEN t.tokens + 1 ELSE t.tokens

\* No Acquire is between its select and its return. Between the two a
\* goroutine touches nothing that another one reads, so the steps of the
\* others are taken with every such Acquire returned.
NoneReturning == \A c \in Callers : thrPc.caller[c] # "return"

\* The callers blocked in the select of Acquire: no case was ready when
\* they entered it.
Parked == {c \in Callers : thrPc.caller[c] = "parked"}

\* A blocked select is woken by the first of its cases that becomes
\* ready, and that case is the one it takes: Acquire is left to return res.
Wake(pcs, cs, res) ==
  [pcs EXCEPT !.caller = [c \in Callers |-> IF c \in cs THEN "return" ELSE @[c]],
              !.res    = [c \in Callers |-> IF c \in cs THEN res ELSE @[c]]]

\* refill, case <-tk.C (the ticker may be ready together with ctx.Done or
\* t.stop: select then picks any ready case). With a receiver blocked on
\* t.tokens the send hands the token to one of them; else the token goes
\* into the channel unless that is full.
RefillTick ==
  /\ NoneReturning
  /\ thrPc.refill = "select"
  /\ IF Parked # {}
       THEN /\ \E c \in Parked : thrPc' = Wake(thrPc, {c}, "nil")
            /\ UNCHANGED thr
       ELSE /\ thr' = [thr EXCEPT !.tokens = RefillDeposit(thr)]
            /\ UNCHANGED thrPc
  /\ thrObs' = [thrObs EXCEPT !.fresh = FALSE]
  /\ UNCHANGED notThr

\* refill, case <-ctx.Done() or <-t.stop.
RefillExit ==
  /\ NoneReturning
  /\ thrPc.refill = "select"
  /\ thrPc.ctx \/ thr.stop
  /\ thrPc' = [thrPc EXCEPT !.refill = "done"]
  /\ UNCHANGED <<thr, thrObs>>
  /\ UNCHANGED notThr

\* The construction-time context is cancelled.
ThrCancel ==
  /\ NoneReturning
  /\ ~thrPc.ctx
  /\ thrPc' = [thrPc EXCEPT !.ctx = TRUE]
  /\ UNCHANGED <<thr, thrObs>>
  /\ UNCHANGED notThr

\* Caller c makes a call: callers that are idle are alike, so the call is
\* made by the idle caller of the lowest number.
ThrCalls(c) ==
  /\ NoneReturning
  /\ thrPc.caller[c] = "idle"
  /\ \A d \in Callers : d < c => thrPc.caller[d] # "idle"

\* TryAcquire's select: take a token if one is there; t.stop is not read.
TryAcquireTakes(t) == t.tokens > 0

TryAcquire(c) ==
  /\ ThrCalls(c)
  /\ thrObs.fresh => Len(thrObs.tryLog) < MaxTryLog
  /\ LET ok == TryAcquireTakes(thr) IN
     /\ thr' = [thr EXCEPT !.tokens = IF ok THEN @ - 1 ELSE @]
     /\ thrObs' = [thrObs EXCEPT
          !.tryLog = IF thrObs.fresh THEN Append(@, ok) ELSE @,
          !.tryAfterStop = IF thrObs.stopReturned
                             THEN (IF ok THEN "true" ELSE "false") ELSE @]
  /\ UNCHANGED thrPc
  /\ UNCHANGED notThr

\* Acquire is called: the goroutine enters the select.
AcquireCall(c) ==
  /\ ThrCalls(c)
  /\ thrPc' = [thrPc EXCEPT !.caller[c] = "acquire"]
  /\ thrObs' = [thrObs EXCEPT !.acqAfterStop[c] = thrObs.stopReturned]
  /\ UNCHANGED thr
  /\ UNCHANGED notThr

\* The ready cases of Acquire's select, as a mutant: t.stop is not among
\* the cases.
AcquireReadyWithoutStop(t, callerCtx) ==
  (IF callerCtx THEN {"canceled"} ELSE {})
    \cup (IF t.tokens > 0 THEN {"nil"} ELSE {})

\* The cases of Acquire's select that are ready; callerCtx says whether the
\* caller's own context is done.
AcquireReady(t, callerCtx) ==
  (IF callerCtx THEN {"canceled"} ELSE {})
    \cup (IF t.stop THEN {"stopped"} ELSE {})
    \cup (IF t.tokens > 0 THEN {"nil"} ELSE {})

\* Acquire enters its select: with a case ready it takes one of the ready
\* cases (a token is taken out of the channel); with none it blocks.
AcquireSelect(c) ==
  /\ NoneReturning
  /\ thrPc.caller[c] = "acquire"
  /\ \E callerCtx \in BOOLEAN :
       LET ready == AcquireReady(thr, callerCtx) IN
       IF ready = {}
         THEN /\ thrPc' = [thrPc EXCEPT !.caller[c] = "parked"]
              /\ UNCHANGED <<thr, thrObs>>
         ELSE \E res \in ready :
                /\ thr' = [thr EXCEPT !.tokens = IF res = "nil" THEN @ - 1 ELSE @]
                /\ thrPc' = Wake(thrPc, {c}, res)
                /\ thrObs' = [thrObs EXCEPT !.fresh = @ /\ res # "nil"]
  /\ UNCHANGED notThr

\* The context of a blocked Acquire is cancelled: case <-ctx.Done().
AcquireCtxDone(c) ==
  /\ NoneReturning
  /\ thrPc.caller[c] = "parked"
  /\ thrPc' = Wake(thrPc, {c}, "canceled")
  /\ UNCHANGED <<thr, thrObs, notThr>>

\* Acquire returns what its select took.
AcquireReturn(c) ==
  /\ thrPc.caller[c] = "return"
  /\ thrObs' = [thrObs EXCEPT
       !.acqAfterStop[c] = FALSE,
       !.acquireAfterStop = IF thrObs.acqAfterStop[c] THEN thrPc.res[c] ELSE @]
  /\ thrPc' = [thrPc EXCEPT !.caller[c] = "idle", !.res[c] = "none"]
  /\ UNCHANGED <<thr, notThr>>

\* sync.Once: Do runs f for the first caller only.
OnceRunsAlways(once) == TRUE
OnceRuns(once) == once = "new"

\* Where the body of Stop starts: onStop when set, before close(t.stop).
StopBody(onStop) == IF onStop THEN "onStop" ELSE "close"

\* Stop is called: stopOnce.Do either runs the body, waits for the caller
\* that is running it, or returns at once.
ThrStop(c) ==
  /\ ThrCalls(c)
  /\ IF OnceRuns(thr.stopOnce)
       THEN /\ thr' = [thr EXCEPT !.stopOnce = "running"]
            /\ thrPc' = [thrPc EXCEPT !.caller[c] = StopBody(thr.onStop)]
            /\ thrObs' = [thrObs EXCEPT
                 !.onStopBegun = IF StopBody(thr.onStop) = "onStop" THEN @ + 1 ELSE @]
       ELSE IF thr.stopOnce = "running"
         THEN /\ thrPc' = [thrPc EXCEPT !.caller[c] = "onceWait"]
              /\ UNCHANGED <<thr, thrObs>>
         ELSE /\ thrObs' = [thrObs EXCEPT !.stopReturned = TRUE]
              /\ UNCHANGED <<thr, thrPc>>
  /\ UNCHANGED notThr

\* onStop returns to the body of Stop.
ThrOnStopReturn(c) ==
  /\ NoneReturning
  /\ thrPc.caller[c] = "onStop"
  /\ thrObs' = [thrObs EXCEPT !.onStopEnded = @ + 1]
  /\ thrPc' = [thrPc EXCEPT !.caller[c] = "close"]
  /\ UNCHANGED thr
  /\ UNCHANGED notThr

\* close(t.stop), the end of the body: every Acquire blocked in its select
\* is woken by case <-t.stop; Once is done and Stop returns.
ThrClose(c) ==
  /\ NoneReturning
  /\ thrPc.caller[c] = "close"
  /\ thr' = [thr EXCEPT !.stop = TRUE, !.stopOnce = "done"]
  /\ thrPc' = [Wake(thrPc, Parked, "stopped") EXCEPT !.caller[c] = "idle"]
  /\ thrObs' = [thrObs EXCEPT !.closes = @ + 1, !.stopReturned = TRUE]
  /\ UNCHANGED notThr

\* A Stop that waited in stopOnce.Do returns once the body has run.
ThrOnceWake(c) ==
  /\ NoneReturning
  /\ thrPc.caller[c] = "onceWait"
  /\ thr.stopOnce = "done"
  /\ thrPc' = [thrPc EXCEPT !.caller[c] = "idle"]
  /\ thrObs' = [thrObs EXCEPT !.stopReturned = TRUE]
  /\ UNCHANGED thr
  /\ UNCHANGED notThr

ThrNext ==
  \/ RefillTick
  \/ RefillExit
  \/ ThrCancel
  \/ \E c \in Callers : TryAcquire(c)
  \/ \E c \in Callers : AcquireCall(c)
  \/ \E c \in Callers : AcquireSelect(c)
  \/ \E c \in Callers : AcquireCtxDone(c)
  \/ \E c \in Callers : AcquireReturn(c)
  \/ \E c \in Callers : ThrStop(c)
  \/ \E c \in Callers : ThrOnStopReturn(c)
  \/ \E c \in Callers : ThrClose(c)
  \/ \E c \in Callers : ThrOnceWake(c)

\* -------------------------------------------------------- Throttler claims

\* C1 (as claimed): a call that begins after Stop has returned behaves as
\* stopped whatever the bucket holds: TryAcquire returns false, and Acquire
\* returns an error (the stopped error, or the caller's own cancellation),
\* never nil.
C1_StoppedCallsFail ==
  /\ thrObs.tryAfterStop # "true"
  /\ thrObs.acquireAfterStop # "nil"

\* C2: however many Stop calls are made, one after another or concurrently,
\* onStop (when set) begins exactly once and has ended before t.stop is
\* closed, so before any Acquire or the refill loop can see the stop; t.stop
\* is closed once, and once a Stop has returned the throttler is stopped
\* with onStop run.
C2_OnStopOnceBeforeStopSignal ==
  /\ thrObs.onStopBegun <= 1
  /\ thrObs.closes <= 1
  /\ thr.stop => thrObs.onStopEnded = (IF thr.onStop THEN 1 ELSE 0)
  /\ thrObs.stopReturned =>
       /\ thr.stop
       /\ thrObs.onStopBegun = (IF thr.onStop THEN 1 ELSE 0)
  /\ ~thr.onStop => thrObs.onStopBegun = 0

\* C2 witness: on a throttler with onStop, a Stop has returned after onStop
\* ran, while a concurrent Stop is still waiting in stopOnce.Do.
C2_Witness ==
  /\ thr.onStop
  /\ thrObs.stopReturned
  /\ thrObs.onStopEnded = 1
  /\ \E c \in Callers : thrPc.caller[c] = "onceWait"

\* C3: the bucket always holds between 0 and burst tokens, burst being at
\* least 1; while no refill tick has happened and only TryAcquire has taken
\* tokens, the i-th TryAcquire succeeds exactly when i <= burst, the bucket
\* having started at exactly burst.
C3_TokensWithinBurst ==
  /\ thr.burst >= 1
  /\ thr.tokens \in 0..thr.burst
  /\ thrObs.fresh =>
       /\ \A i \in 1..Len(thrObs.tryLog) : thrObs.tryLog[i] = (i <= thr.burst)
       /\ thr.tokens + Cardinality({i \in 1..Len(thrObs.tryLog) : thrObs.tryLog[i]})
            = thr.burst

\* C3 witness: burst 2, no tick yet: two TryAcquire calls succeeded and the
\* third failed.
C3_Witness ==
  /\ thr.burst = 2
  /\ thrObs.fresh
  /\ thrObs.tryLog = <<TRUE, TRUE, FALSE>>

\* Caller c is inside Acquire.
InAcquire(c) == thrPc.caller[c] \in {"acquire", "parked", "return"}

\* Acquire of caller c comes to return res in this step.
AcquireTakes(c, res) ==
  /\ thrPc.caller[c] # "return"
  /\ thrPc'.caller[c] = "return"
  /\ thrPc'.res[c] = res

\* C27: an Acquire comes to return nil only by one token leaving the
\* reservoir for it: taken out of the channel by its select, or, when it
\* is blocked on the empty channel, handed over by one send of refill,
\* which wakes no other caller. A blocked Acquire does not stay blocked:
\* close(t.stop) wakes every blocked Acquire with the stopped error and
\* none blocks once t.stop is closed, so that every Acquire of a stopped
\* throttler returns; the cancellation of its own context wakes a blocked
\* Acquire with the context error; every woken Acquire returns what it
\* was woken with; and while the throttler runs (not stopped, its context
\* live) and callers are blocked, one of them is handed a token.
C27_BlockedAcquireReturns ==
  /\ [][\A c \in Callers :
          /\ AcquireTakes(c, "nil") =>
               \/ /\ thrPc.caller[c] = "acquire"
                  /\ thr.tokens > 0 /\ thr'.tokens = thr.tokens - 1
               \/ /\ thrPc.caller[c] = "parked"
                  /\ thrPc.refill = "select"
                  /\ thr.tokens = 0 /\ thr'.tokens = 0
                  /\ \A d \in Callers \ {c} : thrPc'.caller[d] = thrPc.caller[d]
          /\ (thrPc.caller[c] = "parked" /\ ~thr.stop /\ thr'.stop) =>
               AcquireTakes(c, "stopped")
          /\ AcquireCtxDone(c) => AcquireTakes(c, "canceled")
          /\ (thrPc.caller[c] = "return" /\ thrPc'.caller[c] # "return") =>
               (thrPc'.caller[c] = "idle" /\ thr' = thr)
          /\ (thrPc.caller[c] = "parked" /\ thrPc'.caller[c] # "parked") =>
               thrPc'.caller[c] = "return"]_vars
  /\ [](Parked # {} => (thr.tokens = 0 /\ ~thr.stop))
  /\ \A c \in Callers :
       (InAcquire(c) /\ (thr.stop \/ thrPc.caller[c] = "return")) ~> ~InAcquire(c)
  /\ (Parked # {}) ~>
       \/ \E c \in Callers : thrPc.caller[c] = "return" /\ thrPc.res[c] = "nil"
       \/ Parked = {}
       \/ thr.stop \/ thrPc.ctx

\* C27 witness: one caller is blocked in Acquire on the empty reservoir
\* while the other, in Stop, is about to close t.stop.
C27_Witness ==
  /\ thr.tokens = 0
  /\ \E c \in Callers : thrPc.caller[c] = "parked"
  /\ \E d \in Callers : thrPc.caller[d] = "close"

\* ---------------------------------------------------------------- Debouncer

\* Values passed to Trigger; 0 is the zero value of T, held by last at first.
MaxVal == 2
Values == 1..MaxVal

\* The goroutines that may hold an instance's mutex: 0 is "unlocked", a
\* caller is its own number, the timer goroutines come after the callers.
Loops == {"timerLoop", "maxLoop"}
LoopId(L) == IF L = "timerLoop" THEN NumCallers + 1 ELSE NumCallers + 2

\* NewDebouncer: Wait > 0 is required (a positive duration, 1 here);
\* Trailing is forced when neither Leading nor Trailing is asked for.
\* MaxWait is 0 (none) or a positive duration.
\* A timer is "nil" (not created), "armed", "fired" (expired, its tick
\* waiting in timer.C) or "idle" (stopped or expired, timer.C empty).
NewDebouncer(optsLeading, optsTrailing, optsMaxWait, optsStopMode, optsOnStop) ==
  [mu       |-> 0,
   opts     |-> [Wait     |-> 1,
                 Leading  |-> optsLeading,
                 Trailing |-> IF ~optsLeading /\ ~optsTrailing THEN TRUE ELSE optsTrailing,
                 MaxWait  |-> optsMaxWait,
                 StopMode |-> optsStopMode,
                 OnStop   |-> optsOnStop],
   timer    |-> "nil",
   maxTimer |-> "nil",
   last     |-> 0,
   pending  |-> FALSE,
   stopped  |-> FALSE,
   timerLoopStarted |-> FALSE,
   maxLoopStarted   |-> FALSE]

\* Callers idle, no timer goroutine yet, the construction context live.
\* loc holds the locals of a running Stop: last, shouldFlush, shouldCallback.
DebPcInit ==
  [caller |-> [c \in Callers |-> "idle"],
   loc    |-> [c \in Callers |-> [last |-> 0, shouldFlush |-> FALSE,
                                  shouldCallback |-> FALSE]],
   loop   |-> [L \in Loops |-> "off"],
   ctx    |-> FALSE]

\* Nothing triggered, no callback invoked.
\*   trigVal: the value of the latest Trigger the debouncer took
\*   burst:   callbacks begun since the first Trigger of the latest burst,
\*            whether it had several Triggers, what ended it, and the
\*            argument of the callback that ended it
\*   trig:    the latest Trigger call: the state it met and what it did
\*   stop:    the Stop bodies run, pending as Stop met it, the callbacks
\*            Stop began (in order), whether Stop met the context cancelled
\*   whileStopped: callbacks and onStop calls begun with stopped set
DebObsInit ==
  [trigVal |-> 0,
   burst   |-> [cbs |-> 0, several |-> FALSE, endedBy |-> "none", endVal |-> 0],
   trig    |-> [made |-> FALSE, pendingBefore |-> FALSE, stoppedBefore |-> FALSE,
                cb |-> FALSE, cbOwnValue |-> FALSE, onlyLastAndTimer |-> FALSE],
   stop    |-> [ran |-> 0, pending |-> FALSE, log |-> <<>>, cancelled |-> FALSE],
   whileStopped |-> 0]

\* The debouncer of a run that is about another component: never used.
DebIdle ==
  [deb    |-> NewDebouncer(FALSE, TRUE, 0, StopNoop, FALSE),
   debPc  |-> DebPcInit,
   debObs |-> DebObsInit]

\* stopTimerLocked: Stop the timer and drain timer.C; the timer is kept.
stopTimerLocked(t) == IF t = "nil" THEN "nil" ELSE "idle"

\* resetTimerLocked: nothing for dur <= 0; create the timer (and start
\* timerLoop once) or stop, drain and Reset it.
resetTimerLocked(d, dur) ==
  IF dur <= 0 THEN d
  ELSE IF d.timer = "nil"
    THEN [d EXCEPT !.timer = "armed", !.timerLoopStarted = TRUE]
    ELSE [d EXCEPT !.timer = "armed"]

\* resetMaxLocked: the same for maxTimer and maxLoop.
resetMaxLocked(d, dur) ==
  IF dur <= 0 THEN d
  ELSE IF d.maxTimer = "nil"
    THEN [d EXCEPT !.maxTimer = "armed", !.maxLoopStarted = TRUE]
    ELSE [d EXCEPT !.maxTimer = "armed"]

\* "go d.timerLoop()" and "go d.maxLoop()": a loop whose started flag has
\* just been set begins at its select.
StartLoops(pcs, d) ==
  [pcs EXCEPT
     !.loop["timerLoop"] = IF @ = "off" /\ d.timerLoopStarted THEN "select" ELSE @,
     !.loop["maxLoop"]   = IF @ = "off" /\ d.maxLoopStarted THEN "select" ELSE @]

\* The end of a burst, as a mutant: maxTimer is left as it is.
EndBurstKeepsMaxTimer(d) ==
  [d EXCEPT !.pending = FALSE, !.timer = stopTimerLocked(d.timer)]

\* Timer expiry, Flush and Stop all end a burst the same way: pending is
\* cleared and both timers are stopped.
EndBurstLocked(d) ==
  [d EXCEPT !.pending = FALSE,
            !.timer = stopTimerLocked(d.timer),
            !.maxTimer = stopTimerLocked(d.maxTimer)]

\* Trigger, under the lock and past the stopped check: pending and last.
TriggerKeepsFirstValue(d, v) ==
  [d EXCEPT !.pending = TRUE, !.last = IF d.pending THEN @ ELSE v]
TriggerStore(d, v) == [d EXCEPT !.pending = TRUE, !.last = v]

\* Trigger: the callback is called at once on the first trigger of a burst
\* when Leading is set.
TriggerLeadsAlways(d, first) == d.opts.Leading
TriggerLeads(d, first) == d.opts.Leading /\ first

\* Trigger: the stopped check at its head.
TriggerIgnoresStopped(d) == FALSE
TriggerRefused(d) == d.stopped

\* Trigger, the timers, as a mutant: both are reset every time.
TriggerArmsBoth(d, first) ==
  resetMaxLocked(resetTimerLocked(d, d.opts.Wait), d.opts.MaxWait)

\* Trigger, the timers: the idle timer is reset every time, the max-wait
\* timer on the first trigger of a burst when MaxWait > 0.
TriggerArm(d, first) ==
  LET d1 == resetTimerLocked(d, d.opts.Wait) IN
  IF d.opts.MaxWait > 0 /\ first THEN resetMaxLocked(d1, d.opts.MaxWait) ELSE d1

\* A callback (cb) begins with argument arg: it counts for the burst and,
\* when the debouncer is stopped, as a callback of a stopped debouncer.
ObsCb(o, d) ==
  [o EXCEPT !.burst.cbs = @ + 1,
            !.whileStopped = IF d.stopped THEN @ + 1 ELSE @]

\* Trigger(v) locks the mutex. Stopped: nothing. Leading and first of a
\* burst: calls cb(v) with the mutex held (DebTriggerCbReturn goes on).
\* Otherwise it arms the timers and unlocks.
DebTrigger(c, v) ==
  /\ debPc.caller[c] = "idle"
  /\ deb.mu = 0
  /\ LET first == ~deb.pending
         d1    == TriggerStore(deb, v)
         leads == TriggerLeads(deb, first)
         d2    == IF leads THEN [d1 EXCEPT !.mu = c] ELSE TriggerArm(d1, first)
         seen  == [made |-> TRUE, pendingBefore |-> deb.pending,
                   stoppedBefore |-> deb.stopped, cb |-> FALSE,
                   cbOwnValue |-> FALSE, onlyLastAndTimer |-> FALSE]
     IN
     IF TriggerRefused(deb)
       THEN /\ debObs' = [debObs EXCEPT !.trig = seen]
            /\ UNCHANGED <<deb, debPc>>
       ELSE /\ deb' = d2
            /\ debPc' = [StartLoops(debPc, d2) EXCEPT
                 !.caller[c] = IF leads THEN "TriggerCb" ELSE "idle"]
            /\ debObs' =
                 [(IF leads THEN ObsCb(debObs, deb) ELSE debObs) EXCEPT
                    !.trigVal = v,
                    !.burst = IF first
                                THEN [cbs |-> IF leads THEN 1 ELSE 0,
                                      several |-> FALSE,
                                      endedBy |-> "none", endVal |-> 0]
                                ELSE [@ EXCEPT !.several = TRUE],
                    !.trig = [seen EXCEPT
                       !.cb = leads,
                       !.cbOwnValue = leads /\ d1.last = v,
                       !.onlyLastAndTimer =
                          d2 = [deb EXCEPT !.last = v, !.timer = "armed"]]]
  /\ UNCHANGED notDeb

\* The leading callback returns: Trigger arms the idle timer and (for
\* MaxWait > 0) the max-wait timer, and unlocks.
DebTriggerCbReturn(c) ==
  /\ debPc.caller[c] = "TriggerCb"
  /\ LET d2 == resetMaxLocked(resetTimerLocked(deb, deb.opts.Wait), deb.opts.MaxWait) IN
     /\ deb' = [d2 EXCEPT !.mu = 0]
     /\ debPc' = [StartLoops(debPc, d2) EXCEPT !.caller[c] = "idle"]
  /\ UNCHANGED <<debObs, notDeb>>

\* Flush: the check at its head, and as a mutant without its second half.
FlushRefusedWhenStopped(d) == d.stopped
FlushRefused(d) == d.stopped \/ ~d.pending

\* Flush locks the mutex. Stopped or not pending: nothing. With Trailing
\* it calls cb(last) with the mutex held (DebFlushCbReturn goes on);
\* without, it ends the burst.
DebFlush(c) ==
  /\ debPc.caller[c] = "idle"
  /\ deb.mu = 0
  /\ IF FlushRefused(deb)
       THEN UNCHANGED <<deb, debPc, debObs>>
       ELSE IF deb.opts.Trailing
         THEN /\ deb' = [deb EXCEPT !.mu = c]
              /\ debPc' = [debPc EXCEPT !.caller[c] = "FlushCb"]
              /\ debObs' = [ObsCb(debObs, deb) EXCEPT
                   !.burst.endedBy = "Flush", !.burst.endVal = deb.last]
         ELSE /\ deb' = EndBurstLocked(deb)
              /\ debObs' = [debObs EXCEPT !.burst.endedBy = "Flush"]
              /\ UNCHANGED debPc
  /\ UNCHANGED notDeb

\* Flush's callback returns: pending is cleared, the timers stopped, the
\* mutex unlocked.
DebFlushCbReturn(c) ==
  /\ debPc.caller[c] = "FlushCb"
  /\ deb' = [EndBurstLocked(deb) EXCEPT !.mu = 0]
  /\ debPc' = [debPc EXCEPT !.caller[c] = "idle"]
  /\ UNCHANGED <<debObs, notDeb>>

\* Stop: whether to emit last and whether to call OnStop, from the state
\* Stop finds under the lock.
ShouldFlushIgnoresTrailing(d) ==
  d.opts.StopMode \in {StopFlush, StopFlushAndCallback} /\ d.pending
ShouldFlush(d) ==
  /\ d.opts.StopMode \in {StopFlush, StopFlushAndCallback}
  /\ d.pending
  /\ d.opts.Trailing

ShouldCallbackOnlyWithFlush(d) ==
  d.opts.StopMode = StopFlushAndCallback /\ d.opts.OnStop
ShouldCallbackUnlessCancelled(d) ==
  /\ d.opts.StopMode \in {StopCallbackOnly, StopFlushAndCallback}
  /\ d.opts.OnStop
  /\ ~debPc.ctx
ShouldCallback(d) ==
  /\ d.opts.StopMode \in {StopCallbackOnly, StopFlushAndCallback}
  /\ d.opts.OnStop

\* Stop: the stopped check at its head.
StopRefused(d) == d.stopped

\* Stop locks the mutex. Stopped already: nothing. Else it snapshots
\* pending and last, sets stopped, stops the timers, clears pending and
\* unlocks; the callbacks follow without the mutex.
DebStop(c) ==
  /\ debPc.caller[c] = "idle"
  /\ deb.mu = 0
  /\ IF StopRefused(deb)
       THEN UNCHANGED <<deb, debPc, debObs>>
       ELSE /\ deb' = [EndBurstLocked(deb) EXCEPT !.stopped = TRUE]
            /\ debPc' = [debPc EXCEPT
                 !.caller[c] = "StopUnlocked",
                 !.loc[c] = [last |-> deb.last,
                             shouldFlush |-> ShouldFlush(deb),
                             shouldCallback |-> ShouldCallback(deb)]]
            /\ debObs' = [debObs EXCEPT
                 !.stop.ran = @ + 1,
                 !.stop.pending = deb.pending,
                 !.stop.cancelled = debPc.ctx,
                 !.burst.endedBy = IF deb.pending THEN "Stop" ELSE @]
  /\ UNCHANGED notDeb

\* What Stop does next (after the unlock, or after cb returned): OnStop
\* when shouldCallback, else it returns.
StopAfterFlush(c) ==
  IF debPc.loc[c].shouldCallback THEN "StopOnStop" ELSE "idle"

\* A caller goes on to pc; its locals are gone once it is idle again.
DebGoes(c, pc) ==
  [debPc EXCEPT !.caller[c] = pc,
                !.loc[c] = IF pc = "idle" THEN DebPcInit.loc[c] ELSE @]

\* Stop, after the unlock: "if shouldFlush { d.cb(last) }", the callback
\* begins; else on to OnStop or the return.
DebStopUnlocked(c) ==
  /\ debPc.caller[c] = "StopUnlocked"
  /\ LET next == IF debPc.loc[c].shouldFlush THEN "StopCb" ELSE StopAfterFlush(c)
         ev   == [kind |-> IF next = "StopCb" THEN "cb" ELSE "OnStop",
                  arg  |-> debPc.loc[c].last]
     IN
     /\ debPc' = DebGoes(c, next)
     /\ debObs' =
          IF next = "idle"
            THEN debObs
            ELSE [(IF next = "StopCb" THEN ObsCb(debObs, deb)
                   ELSE [debObs EXCEPT !.whileStopped = @ + 1]) EXCEPT
                    !.stop.log = Append(@, ev)]
  /\ UNCHANGED <<deb, notDeb>>

\* Stop's cb(last) returns: "if shouldCallback { d.opts.OnStop(last) }"
\* begins, or Stop returns.
DebStopCbReturn(c) ==
  /\ debPc.caller[c] = "StopCb"
  /\ debPc' = DebGoes(c, StopAfterFlush(c))
  /\ debObs' =
       IF StopAfterFlush(c) = "idle"
         THEN debObs
         ELSE [debObs EXCEPT
                 !.whileStopped = @ + 1,
                 !.stop.log = Append(@, [kind |-> "OnStop", arg |-> debPc.loc[c].last])]
  /\ UNCHANGED <<deb, notDeb>>

\* OnStop returns and Stop with it.
DebStopOnStopReturn(c) ==
  /\ debPc.caller[c] = "StopOnStop"
  /\ debPc' = DebGoes(c, "idle")
  /\ UNCHANGED <<deb, debObs, notDeb>>

\* The callback a caller is running calls Trigger, Flush or Stop of the
\* same debouncer. Run from Trigger or Flush it finds the mutex held by
\* its own goroutine: d.mu.Lock() never returns. (Run from Stop it finds
\* the mutex free and the debouncer stopped: the call changes nothing.)
DebCbReenters(c) ==
  /\ debPc.caller[c] \in {"TriggerCb", "FlushCb"}
  /\ deb.mu = c
  /\ debPc' = [debPc EXCEPT !.caller[c] = "deadlock"]
  /\ UNCHANGED <<deb, debObs, notDeb>>

\* The timer of loop L.
TimerOf(d, L) == IF L = "timerLoop" THEN d.timer ELSE d.maxTimer

\* An armed timer expires: its tick is put in its channel.
DebTimerFires(L) ==
  /\ TimerOf(deb, L) = "armed"
  /\ deb' = IF L = "timerLoop" THEN [deb EXCEPT !.timer = "fired"]
                               ELSE [deb EXCEPT !.maxTimer = "fired"]
  /\ UNCHANGED <<debPc, debObs, notDeb>>

\* timerLoop / maxLoop, case <-d.timer.C: the tick is received.
DebLoopReceives(L) ==
  /\ debPc.loop[L] = "select"
  /\ TimerOf(deb, L) = "fired"
  /\ deb' = IF L = "timerLoop" THEN [deb EXCEPT !.timer = "idle"]
                               ELSE [deb EXCEPT !.maxTimer = "idle"]
  /\ debPc' = [debPc EXCEPT !.loop[L] = "tick"]
  /\ UNCHANGED <<debObs, notDeb>>

\* timerLoop / maxLoop, case <-d.ctx.Done(): the loop returns.
DebLoopCancelled(L) ==
  /\ debPc.loop[L] = "select"
  /\ debPc.ctx
  /\ debPc' = [debPc EXCEPT !.loop[L] = "done"]
  /\ UNCHANGED <<deb, debObs, notDeb>>

\* The loop: emit when Trailing and pending.
LoopEmits(d) == d.opts.Trailing /\ d.pending

\* timerLoop / maxLoop after a tick: lock; stopped: unlock and return;
\* Trailing and pending: call cb(last) with the mutex held
\* (DebLoopCbReturn goes on); else end the burst and unlock.
DebLoopHandles(L) ==
  /\ debPc.loop[L] = "tick"
  /\ deb.mu = 0
  /\ IF deb.stopped
       THEN /\ debPc' = [debPc EXCEPT !.loop[L] = "done"]
            /\ UNCHANGED <<deb, debObs>>
       ELSE IF LoopEmits(deb)
         THEN /\ deb' = [deb EXCEPT !.mu = LoopId(L)]
              /\ debPc' = [debPc EXCEPT !.loop[L] = "cb"]
              /\ debObs' = [ObsCb(debObs, deb) EXCEPT
                   !.burst.endedBy = L, !.burst.endVal = deb.last]
         ELSE /\ deb' = EndBurstLocked(deb)
              /\ debPc' = [debPc EXCEPT !.loop[L] = "select"]
              /\ debObs' = [debObs EXCEPT
                   !.burst.endedBy = IF deb.pending THEN L ELSE @]
  /\ UNCHANGED notDeb

\* The loop's callback returns: pending is cleared, the timers stopped,
\* the mutex unlocked, and the loop selects again.
DebLoopCbReturn(L) ==
  /\ debPc.loop[L] = "cb"
  /\ deb' = [EndBurstLocked(deb) EXCEPT !.mu = 0]
  /\ debPc' = [debPc EXCEPT !.loop[L] = "select"]
  /\ UNCHANGED <<debObs, notDeb>>

\* The callback a loop is running calls Trigger, Flush or Stop of the same
\* debouncer: the mutex is held by the loop itself, d.mu.Lock() never
\* returns.
DebLoopCbReenters(L) ==
  /\ debPc.loop[L] = "cb"
  /\ deb.mu = LoopId(L)
  /\ debPc' = [debPc EXCEPT !.loop[L] = "deadlock"]
  /\ UNCHANGED <<deb, debObs, notDeb>>

\* The construction-time context is cancelled.
DebCancel ==
  /\ ~debPc.ctx
  /\ debPc' = [debPc EXCEPT !.ctx = TRUE]
  /\ UNCHANGED <<deb, debObs, notDeb>>

DebNext ==
  \/ \E c \in Callers, v \in Values : DebTrigger(c, v)
  \/ \E c \in Callers : DebTriggerCbReturn(c)
  \/ \E c \in Callers : DebFlush(c)
  \/ \E c \in Callers : DebFlushCbReturn(c)
  \/ \E c \in Callers : DebStop(c)
  \/ \E c \in Callers : DebStopUnlocked(c)
  \/ \E c \in Callers : DebStopCbReturn(c)
  \/ \E c \in Callers : DebStopOnStopReturn(c)
  \/ \E c \in Callers : DebCbReenters(c)
  \/ \E L \in Loops : DebTimerFires(L)
  \/ \E L \in Loops : DebLoopReceives(L)
  \/ \E L \in Loops : DebLoopCancelled(L)
  \/ \E L \in Loops : DebLoopHandles(L)
  \/ \E L \in Loops : DebLoopCbReturn(L)
  \/ \E L \in Loops : DebLoopCbReenters(L)
  \/ DebCancel

\* -------------------------------------------------------- Debouncer claims

\* s is a prefix of t.
IsPrefix(s, t) == Len(s) <= Len(t) /\ \A i \in 1..Len(s) : s[i] = t[i]

\* The first Stop has run its body to the end.
DebStopFinished ==
  /\ debObs.stop.ran >= 1
  /\ \A c \in Callers : debPc.caller[c] \notin {"StopUnlocked", "StopCb", "StopOnStop"}

\* C4: in a trailing-only debouncer (Leading unset, no MaxWait) a burst of
\* Triggers that timerLoop ends (an idle-timer tick met pending) has had
\* exactly one callback, called with the value of the burst's last Trigger,
\* and no other callback begins before the next burst's first Trigger.
C4_TrailingBurstEmitsLastOnce ==
  (/\ ~deb.opts.Leading
   /\ deb.opts.MaxWait = 0
   /\ debObs.burst.endedBy = "timerLoop")
    => /\ debObs.burst.cbs = 1
       /\ debObs.burst.endVal = debObs.trigVal

\* C4 witness: a burst of several Triggers, the last with value 2, was
\* ended by timerLoop, whose callback has returned.
C4_Witness ==
  /\ ~deb.opts.Leading
  /\ deb.opts.MaxWait = 0
  /\ debObs.burst.endedBy = "timerLoop"
  /\ debObs.burst.several
  /\ debObs.trigVal = 2
  /\ debPc.loop["timerLoop"] = "select"
  /\ ~deb.pending

\* C5 (as claimed): with Leading set, a Trigger calls the callback at once,
\* with its own value, if and only if pending was false when it was called;
\* a Trigger that meets pending calls nothing and only writes last and
\* re-arms the idle timer.
C5_LeadingFiresIffNotPending ==
  (deb.opts.Leading /\ debObs.trig.made)
    => /\ debObs.trig.cb <=> ~debObs.trig.pendingBefore
       /\ debObs.trig.cb => debObs.trig.cbOwnValue
       /\ debObs.trig.pendingBefore => debObs.trig.onlyLastAndTimer

\* C5 (amended): the same for a Trigger that meets a debouncer not yet
\* stopped; a Trigger on a stopped debouncer meets pending false and calls
\* nothing.
C5_LeadingFiresIffNotPendingUnlessStopped ==
  (deb.opts.Leading /\ debObs.trig.made)
    => IF debObs.trig.stoppedBefore
         THEN ~debObs.trig.pendingBefore /\ ~debObs.trig.cb
         ELSE /\ debObs.trig.cb <=> ~debObs.trig.pendingBefore
              /\ debObs.trig.cb => debObs.trig.cbOwnValue
              /\ debObs.trig.pendingBefore => debObs.trig.onlyLastAndTimer

\* C5 witness: with Leading set, a Trigger met pending on a live debouncer
\* (the leading callback of the burst being over) and called nothing.
C5_Witness ==
  /\ deb.opts.Leading
  /\ debObs.trig.made
  /\ ~debObs.trig.stoppedBefore
  /\ debObs.trig.pendingBefore
  /\ ~debObs.trig.cb
  /\ debObs.burst.cbs = 1

\* What the first Stop calls, in order: cb(last) when the stop mode flushes
\* and Stop met pending with Trailing set, then OnStop(last) when the stop
\* mode calls back and OnStop is set; last is the latest triggered value.
DebStopExpected ==
  (IF /\ deb.opts.StopMode \in {StopFlush, StopFlushAndCallback}
      /\ debObs.stop.pending
      /\ deb.opts.Trailing
     THEN << [kind |-> "cb", arg |-> debObs.trigVal] >> ELSE << >>)
  \o
  (IF /\ deb.opts.StopMode \in {StopCallbackOnly, StopFlushAndCallback}
      /\ deb.opts.OnStop
     THEN << [kind |-> "OnStop", arg |-> debObs.trigVal] >> ELSE << >>)

\* C6: under StopFlush and StopFlushAndCallback the first Stop calls the
\* trigger callback, with the last triggered value, exactly when it met
\* pending with Trailing set; under StopFlushAndCallback OnStop (when set)
\* is called after that, with the same value.
C6_StopFlushEmitsIffPendingTrailing ==
  deb.opts.StopMode \in {StopFlush, StopFlushAndCallback}
    => /\ IsPrefix(debObs.stop.log, DebStopExpected)
       /\ DebStopFinished => debObs.stop.log = DebStopExpected
       /\ DebStopFinished =>
            ((\E i \in 1..Len(debObs.stop.log) : debObs.stop.log[i].kind = "cb")
               <=> (debObs.stop.pending /\ deb.opts.Trailing))

\* C6 witness: leading and trailing, StopFlushAndCallback: Stop met value 2
\* pending, emitted it and then called OnStop(2).
C6_Witness ==
  /\ deb.opts.StopMode = StopFlushAndCallback
  /\ deb.opts.Leading
  /\ DebStopFinished
  /\ debObs.stop.log = << [kind |-> "cb", arg |-> 2], [kind |-> "OnStop", arg |-> 2] >>

\* C7: under StopCallbackOnly the first Stop never calls the trigger
\* callback and calls OnStop (when set) once, with the last triggered
\* value; under StopNoop it calls nothing; either way pending is cleared and
\* no callback of the stopped debouncer begins outside Stop.
C7_StopCallbackOnlyAndNoop ==
  deb.opts.StopMode \in {StopCallbackOnly, StopNoop}
    => /\ IsPrefix(debObs.stop.log, DebStopExpected)
       /\ DebStopFinished => debObs.stop.log = DebStopExpected
       /\ \A i \in 1..Len(debObs.stop.log) : debObs.stop.log[i].kind = "OnStop"
       /\ deb.opts.StopMode = StopNoop => debObs.stop.log = << >>
       /\ debObs.stop.ran >= 1 => ~deb.pending
       /\ debObs.whileStopped = Len(debObs.stop.log)

\* C7 witness: StopCallbackOnly: Stop met value 2 pending, and has called
\* OnStop(2) and nothing else.
C7_Witness ==
  /\ deb.opts.StopMode = StopCallbackOnly
  /\ debObs.stop.pending
  /\ DebStopFinished
  /\ debObs.stop.log = << [kind |-> "OnStop", arg |-> 2] >>

\* C8: stopped is terminal: once set it stays set, pending stays false, the
\* Stop body has run once only, and the only callbacks begun on the stopped
\* debouncer are the (at most two) of that Stop.
C8_StoppedIsTerminal ==
  /\ [](deb.stopped =>
          /\ ~deb.pending
          /\ debObs.stop.ran = 1
          /\ debObs.whileStopped = Len(debObs.stop.log)
          /\ Len(debObs.stop.log) <= 2)
  /\ [][deb.stopped => deb'.stopped]_vars

\* C8 witness: after the first Stop finished (having called cb and OnStop),
\* a Trigger was made on the stopped debouncer with every caller idle again.
C8_Witness ==
  /\ deb.stopped
  /\ DebStopFinished
  /\ Len(debObs.stop.log) = 2
  /\ debObs.trig.made /\ debObs.trig.stoppedBefore
  /\ \A c \in Callers : debPc.caller[c] = "idle"

\* C9 (as claimed): a goroutine that runs a user callback of a debouncer
\* does not hold the debouncer's mutex, so no callback that calls back into
\* the debouncer blocks on it for ever.
C9_CallbacksRunUnlocked ==
  /\ \A c \in Callers :
       /\ debPc.caller[c] \in {"TriggerCb", "FlushCb", "StopCb", "StopOnStop"}
            => deb.mu # c
       /\ debPc.caller[c] # "deadlock"
  /\ \A L \in Loops :
       /\ debPc.loop[L] = "cb" => deb.mu # LoopId(L)
       /\ debPc.loop[L] # "deadlock"

\* A step of the cancellation alone: the context is cancelled, or a timer
\* loop takes case <-d.ctx.Done() and returns.
DebCancellationStep ==
  \/ debPc'.ctx # debPc.ctx
  \/ \E L \in Loops : debPc.loop[L] = "select" /\ debPc'.loop[L] = "done"

DebTriggerStep == \E c \in Callers, v \in Values : DebTrigger(c, v)
DebFlushStep == \E c \in Callers : DebFlush(c)
DebFlushEnds == DebFlushStep \/ \E c \in Callers : DebFlushCbReturn(c)

\* No timer of d is running or has a tick waiting in its channel.
DebDisarmed(d) == d.timer \in {"nil", "idle"} /\ d.maxTimer \in {"nil", "idle"}

\* C23: with MaxWait > 0 and Trailing, the first Trigger of a burst arms
\* the max-wait timer (once its leading callback, if any, has returned)
\* and a later Trigger of the same burst leaves the max-wait timer as it
\* is; when maxLoop handles the expiry with the burst still pending it
\* calls cb with the value of the latest Trigger, and on the callback's
\* return pending is cleared and both timers are disarmed; the Trigger
\* after that is again the first of a burst.
C23_MaxWaitArmedOncePerBurst ==
  [][(deb.opts.MaxWait > 0 /\ deb.opts.Trailing /\ ~deb.stopped) =>
       /\ (DebTriggerStep /\ deb.pending) => deb'.maxTimer = deb.maxTimer
       /\ (DebTriggerStep /\ ~deb.pending /\ ~deb.opts.Leading) =>
            (deb'.maxTimer = "armed" /\ deb'.pending /\ ~debObs'.burst.several)
       /\ (\E c \in Callers : DebTriggerCbReturn(c)) =>
            (deb'.maxTimer = "armed" /\ deb'.pending)
       /\ (DebLoopHandles("maxLoop") /\ deb.pending) =>
            /\ debPc'.loop["maxLoop"] = "cb"
            /\ debObs'.burst.cbs = debObs.burst.cbs + 1
            /\ debObs'.burst.endedBy = "maxLoop"
            /\ debObs'.burst.endVal = debObs.trigVal
       /\ DebLoopCbReturn("maxLoop") =>
            (~deb'.pending /\ DebDisarmed(deb') /\ deb'.mu = 0)
    ]_vars

\* C23 witness: a burst of several Triggers under MaxWait > 0 and Trailing
\* was ended by the max-wait expiry, which emitted the latest value and
\* left pending cleared and both timers stopped.
C23_Witness ==
  /\ deb.opts.MaxWait > 0 /\ deb.opts.Trailing /\ ~deb.opts.Leading
  /\ debObs.burst.several
  /\ debObs.burst.endedBy = "maxLoop"
  /\ debObs.burst.endVal = debObs.trigVal
  /\ debPc.loop["maxLoop"] = "select"
  /\ ~deb.pending /\ DebDisarmed(deb)

\* C24: whenever the mutex is free and pending is false, neither the idle
\* timer nor the max-wait timer is armed (nor has one a tick waiting in
\* its channel).
C24_NotPendingMeansDisarmed ==
  (deb.mu = 0 /\ ~deb.pending) => DebDisarmed(deb)

\* C24 witness: a burst under MaxWait > 0 was ended by the idle timer, and
\* with the mutex free again both timers, created and armed during the
\* burst, are stopped.
C24_Witness ==
  /\ deb.mu = 0 /\ ~deb.pending
  /\ deb.opts.MaxWait > 0
  /\ debObs.burst.endedBy = "timerLoop"
  /\ deb.timer = "idle" /\ deb.maxTimer = "idle"

\* C25: Flush on a pending, not stopped debouncer calls cb(last) exactly
\* when Trailing is set; when Flush is through, pending is cleared and
\* both timers are disarmed; from then on no callback begins before the
\* next Trigger, also not from a timer loop that had received its tick
\* before the Flush; and Flush on a stopped or not pending debouncer
\* changes nothing.
C25_FlushEmitsOnceAndDisarms ==
  /\ [][(DebFlushStep /\ ~deb.stopped /\ deb.pending) =>
          IF deb.opts.Trailing
            THEN /\ debObs'.burst.cbs = debObs.burst.cbs + 1
                 /\ debObs'.burst.endVal = deb.last
                 /\ deb'.mu # 0
            ELSE /\ debObs'.burst.cbs = debObs.burst.cbs
                 /\ ~deb'.pending /\ DebDisarmed(deb')]_vars
  /\ [][(\E c \in Callers : DebFlushCbReturn(c)) =>
          (~deb'.pending /\ DebDisarmed(deb') /\ deb'.mu = 0)]_vars
  /\ [][(deb.stopped \/ ~deb.pending) => ~DebFlushStep]_vars
  /\ [][(debObs.burst.endedBy = "Flush" /\ deb.mu = 0 /\ ~DebTriggerStep) =>
          (debObs'.burst.cbs = debObs.burst.cbs /\ ~deb'.pending)]_vars

\* C25 witness: the idle timer expired and timerLoop received its tick;
\* Flush then emitted the pending value and ended the burst; timerLoop has
\* yet to handle the tick.
C25_Witness ==
  /\ deb.opts.Trailing /\ ~deb.opts.Leading
  /\ debObs.burst.endedBy = "Flush"
  /\ debObs.burst.cbs = 1
  /\ debPc.loop["timerLoop"] = "tick"
  /\ deb.mu = 0 /\ ~deb.pending /\ ~deb.stopped

\* ---------------------------------------------------------------- Coalescer

\* Add calls made on one coalescer.
MaxAdds == 2

\* The folder of the model: the accumulator is read as a number in base
\* MaxVal + 1 whose digits are the values added, in Add order, so that
\* different sequences of Adds fold to different accumulators.
Folder(acc, next) == acc * (MaxVal + 1) + next

\* NewCoalescer: window > 0 is required (a positive duration, 1 here).
\* The timer is "nil", "armed", "fired" or "idle", as a debouncer's.
NewCoalescer(optsStopMode, optsOnStop) ==
  [mu       |-> 0,
   window   |-> 1,
   timer    |-> "nil",
   acc      |-> 0,
   hasAcc   |-> FALSE,
   stopped  |-> FALSE,
   stopMode |-> optsStopMode,
   onStop   |-> optsOnStop]

\* Callers idle, no loop goroutine yet, the construction context live.
\* loc holds the locals of a running Flush or Stop (acc, shouldFlush,
\* shouldCallback), loopAcc the local acc of loop.
CoaPcInit ==
  [caller  |-> [c \in Callers |-> "idle"],
   loc     |-> [c \in Callers |-> [acc |-> 0, shouldFlush |-> FALSE,
                                   shouldCallback |-> FALSE]],
   loop    |-> "off",
   loopAcc |-> 0,
   ctx     |-> FALSE]

\* What has been observed of a coalescer. added holds the values passed to
\* Add since the accumulator was last taken, adds counts the Adds made,
\* elapsed says that the window timer armed by the latest Add has expired.
\* stop is the first Stop: whether it ran, the hasAcc it found, the
\* accumulator it found (the fold of the values added, or what acc held when
\* there was none) and the callbacks it began (<<name, argument>>);
\* returned says that some Stop call has returned.
CoaObsInit ==
  [added   |-> << >>,
   adds    |-> 0,
   elapsed |-> FALSE,
   stop    |-> [ran |-> FALSE, hasAcc |-> FALSE, acc |-> 0, log |-> << >>],
   returned |-> FALSE]

\* The coalescer of a run that is about another component: never used.
CoaIdle ==
  [coa    |-> NewCoalescer(StopNoop, FALSE),
   coaPc  |-> CoaPcInit,
   coaObs |-> CoaObsInit]

\* Caller c makes a call: it is not inside another one. The callers are
\* interchangeable goroutines, so the call is made by the first of the
\* callers that are free (any other choice gives the same run with the
\* callers renamed).
CoaCalls(c) ==
  /\ coaPc.caller[c] = "idle"
  /\ \A d \in Callers : d < c => coaPc.caller[d] # "idle"

\* The left fold of the values vs by the folder, seeded with the first.
RECURSIVE FoldLeft(_)
FoldLeft(vs) ==
  IF Len(vs) = 1 THEN vs[1]
  ELSE Folder(FoldLeft(SubSeq(vs, 1, Len(vs) - 1)), vs[Len(vs)])

\* Add, as a mutant: the value is folded into whatever acc holds, also when
\* the accumulator was emitted before.
AddFoldsIntoStale(co, v) ==
  [co EXCEPT !.acc = Folder(co.acc, v), !.hasAcc = TRUE]

\* Add, under the lock and past the stopped check: the first value of a
\* window is the accumulator, the next ones are folded into it.
AddFold(co, v) ==
  IF ~co.hasAcc THEN [co EXCEPT !.acc = v, !.hasAcc = TRUE]
                ELSE [co EXCEPT !.acc = Folder(co.acc, v)]

\* Add locks the mutex. Stopped: nothing. Else it folds v in, and creates
\* the timer and starts loop, or stops, drains and resets the timer; then
\* it unlocks. (The mutex is never held from one step to the next: every
\* critical section of the coalescer is one step.)
CoaAdd(c, v) ==
  /\ CoaCalls(c)
  /\ coa.mu = 0
  /\ coaObs.adds < MaxAdds
  /\ IF coa.stopped
       THEN UNCHANGED <<coa, coaPc, coaObs>>
       ELSE /\ coa' = [AddFold(coa, v) EXCEPT !.timer = "armed"]
            /\ coaPc' = [coaPc EXCEPT
                 !.loop = IF coa.timer = "nil" THEN "select" ELSE @]
            /\ coaObs' = [coaObs EXCEPT !.added = Append(@, v),
                                        !.adds = @ + 1,
                                        !.elapsed = FALSE]
  /\ UNCHANGED notCoa

\* stopTimerLocked and "hasAcc = false": the accumulator is taken.
TakeAccLocked(co) ==
  [co EXCEPT !.hasAcc = FALSE, !.timer = stopTimerLocked(co.timer)]

\* Flush locks the mutex; stopped or nothing accumulated: it returns.
\* Else it takes the accumulator and unlocks; emit follows.
CoaFlush(c) ==
  /\ CoaCalls(c)
  /\ coa.mu = 0
  /\ IF coa.stopped \/ ~coa.hasAcc
       THEN UNCHANGED <<coa, coaPc, coaObs>>
       ELSE /\ coa' = TakeAccLocked(coa)
            /\ coaPc' = [coaPc EXCEPT !.caller[c] = "FlushUnlocked",
                                      !.loc[c].acc = coa.acc]
            /\ coaObs' = [coaObs EXCEPT !.added = << >>]
  /\ UNCHANGED notCoa

\* Flush, after the unlock: c.emit(acc) begins.
CoaFlushEmit(c) ==
  /\ coaPc.caller[c] = "FlushUnlocked"
  /\ coaPc' = [coaPc EXCEPT !.caller[c] = "FlushEmit"]
  /\ UNCHANGED <<coa, coaObs, notCoa>>

\* emit returns to Flush, which is to lock again for its deferred Unlock.
CoaFlushEmitReturn(c) ==
  /\ coaPc.caller[c] = "FlushEmit"
  /\ coaPc' = [coaPc EXCEPT !.caller[c] = "FlushRelock", !.loc[c] = CoaPcInit.loc[c]]
  /\ UNCHANGED <<coa, coaObs, notCoa>>

\* Flush locks again, the deferred Unlock runs, Flush returns.
CoaFlushRelock(c) ==
  /\ coaPc.caller[c] = "FlushRelock"
  /\ coa.mu = 0
  /\ coaPc' = [coaPc EXCEPT !.caller[c] = "idle", !.loc[c] = CoaPcInit.loc[c]]
  /\ UNCHANGED <<coa, coaObs, notCoa>>

\* Stop, as a mutant: the mode alone decides the emission.
CoaShouldFlushIgnoresHasAcc(co) ==
  co.stopMode \in {StopFlush, StopFlushAndCallback}

\* Stop: whether to emit the accumulator and whether to call onStop.
CoaShouldFlush(co) ==
  co.stopMode \in {StopFlush, StopFlushAndCallback} /\ co.hasAcc

CoaShouldCallback(co) ==
  co.stopMode \in {StopCallbackOnly, StopFlushAndCallback} /\ co.onStop

\* Stop locks the mutex. Stopped already: nothing. Else it snapshots hasAcc
\* and acc, sets stopped, stops the timer, clears hasAcc and unlocks; the
\* callbacks follow without the mutex.
CoaStop(c) ==
  /\ CoaCalls(c)
  /\ coa.mu = 0
  /\ IF coa.stopped
       THEN /\ coaObs' = [coaObs EXCEPT !.returned = TRUE]
            /\ UNCHANGED <<coa, coaPc>>
       ELSE /\ coa' = [TakeAccLocked(coa) EXCEPT !.stopped = TRUE]
            /\ coaPc' = [coaPc EXCEPT
                 !.caller[c] = "StopUnlocked",
                 !.loc[c] = [acc |-> coa.acc,
                             shouldFlush |-> CoaShouldFlush(coa),
                             shouldCallback |-> CoaShouldCallback(coa)]]
            /\ coaObs' = [coaObs EXCEPT
                 !.added = << >>,
                 !.stop = [ran |-> TRUE, hasAcc |-> coa.hasAcc,
                           acc |-> IF coa.hasAcc THEN FoldLeft(coaObs.added)
                                   ELSE coa.acc,
                           log |-> << >>]]
  /\ UNCHANGED notCoa

\* What Stop does after the flush: onStop when shouldCallback, else return.
CoaStopAfterFlush(c) ==
  IF coaPc.loc[c].shouldCallback THEN "StopOnStop" ELSE "idle"

\* A caller goes on to pc; its locals are gone once it is idle again.
CoaGoes(c, pc) ==
  [coaPc EXCEPT !.caller[c] = pc,
                !.loc[c] = IF pc = "idle" THEN CoaPcInit.loc[c] ELSE @]

\* What is observed when Stop goes on to pc: a callback begun with the
\* snapshot acc, or the return of Stop.
CoaStopObs(c, pc) ==
  IF pc = "idle"
    THEN [coaObs EXCEPT !.returned = TRUE]
    ELSE [coaObs EXCEPT
            !.stop.log = Append(@, <<IF pc = "StopEmit" THEN "emit" ELSE "onStop",
                                     coaPc.loc[c].acc>>)]

\* Stop, after the unlock: "if shouldFlush { c.emit(acc) }" begins; else on
\* to onStop or the return.
CoaStopUnlocked(c) ==
  /\ coaPc.caller[c] = "StopUnlocked"
  /\ LET pc == IF coaPc.loc[c].shouldFlush THEN "StopEmit"
                ELSE CoaStopAfterFlush(c)
     IN /\ coaPc' = CoaGoes(c, pc)
        /\ coaObs' = CoaStopObs(c, pc)
  /\ UNCHANGED <<coa, notCoa>>

\* Stop's emit returns: onStop(acc) begins, or Stop returns.
CoaStopEmitReturn(c) ==
  /\ coaPc.caller[c] = "StopEmit"
  /\ coaPc' = CoaGoes(c, CoaStopAfterFlush(c))
  /\ coaObs' = CoaStopObs(c, CoaStopAfterFlush(c))
  /\ UNCHANGED <<coa, notCoa>>

\* onStop returns and Stop with it.
CoaStopOnStopReturn(c) ==
  /\ coaPc.caller[c] = "StopOnStop"
  /\ coaPc' = CoaGoes(c, "idle")
  /\ coaObs' = CoaStopObs(c, "idle")
  /\ UNCHANGED <<coa, notCoa>>

\* The armed window timer expires: its tick is put in timer.C.
CoaTimerFires ==
  /\ coa.timer = "armed"
  /\ coa' = [coa EXCEPT !.timer = "fired"]
  /\ coaObs' = [coaObs EXCEPT !.elapsed = TRUE]
  /\ UNCHANGED <<coaPc, notCoa>>

\* loop, case <-c.timer.C: the tick is received.
CoaLoopReceives ==
  /\ coaPc.loop = "select"
  /\ coa.timer = "fired"
  /\ coa' = [coa EXCEPT !.timer = "idle"]
  /\ coaPc' = [coaPc EXCEPT !.loop = "tick"]
  /\ UNCHANGED <<coaObs, notCoa>>

\* loop, case <-c.ctx.Done(): the loop returns.
CoaLoopCancelled ==
  /\ coaPc.loop = "select"
  /\ coaPc.ctx
  /\ coaPc' = [coaPc EXCEPT !.loop = "done"]
  /\ UNCHANGED <<coa, coaObs, notCoa>>

\* loop after a tick: lock; stopped: unlock and return; something
\* accumulated: take it and unlock, emit follows; nothing accumulated:
\* stop the timer, unlock and return.
CoaLoopHandles ==
  /\ coaPc.loop = "tick"
  /\ coa.mu = 0
  /\ IF coa.stopped
       THEN /\ coaPc' = [coaPc EXCEPT !.loop = "done"]
            /\ UNCHANGED <<coa, coaObs>>
       ELSE IF coa.hasAcc
         THEN /\ coa' = TakeAccLocked(coa)
              /\ coaPc' = [coaPc EXCEPT !.loop = "unlocked", !.loopAcc = coa.acc]
              /\ coaObs' = [coaObs EXCEPT !.added = << >>]
         ELSE /\ coa' = [coa EXCEPT !.timer = stopTimerLocked(coa.timer)]
              /\ coaPc' = [coaPc EXCEPT !.loop = "done"]
              /\ UNCHANGED coaObs
  /\ UNCHANGED notCoa

\* loop, after the unlock: c.emit(acc) begins.
CoaLoopEmit ==
  /\ coaPc.loop = "unlocked"
  /\ coaPc' = [coaPc EXCEPT !.loop = "emit"]
  /\ UNCHANGED <<coa, coaObs, notCoa>>

\* loop's emit returns: "continue", the loop selects again.
CoaLoopEmitReturn ==
  /\ coaPc.loop = "emit"
  /\ coaPc' = [coaPc EXCEPT !.loop = "select", !.loopAcc = 0]
  /\ UNCHANGED <<coa, coaObs, notCoa>>

\* The construction-time context is cancelled.
CoaCancel ==
  /\ ~coaPc.ctx
  /\ coaPc' = [coaPc EXCEPT !.ctx = TRUE]
  /\ UNCHANGED <<coa, coaObs, notCoa>>

CoaNext ==
  \/ \E c \in Callers, v \in Values : CoaAdd(c, v)
  \/ \E c \in Callers : CoaFlush(c)
  \/ \E c \in Callers : CoaFlushEmit(c)
  \/ \E c \in Callers : CoaFlushEmitReturn(c)
  \/ \E c \in Callers : CoaFlushRelock(c)
  \/ \E c \in Callers : CoaStop(c)
  \/ \E c \in Callers : CoaStopUnlocked(c)
  \/ \E c \in Callers : CoaStopEmitReturn(c)
  \/ \E c \in Callers : CoaStopOnStopReturn(c)
  \/ CoaTimerFires
  \/ CoaLoopReceives
  \/ CoaLoopCancelled
  \/ CoaLoopHandles
  \/ CoaLoopEmit
  \/ CoaLoopEmitReturn
  \/ CoaCancel

\* -------------------------------------------------------- Coalescer claims

\* The goroutines that are running a user callback (emit or onStop) of the
\* coalescer: callers by number, the loop as 0.
CoaInCallback ==
  {c \in Callers : coaPc.caller[c] \in {"FlushEmit", "StopEmit", "StopOnStop"}}
    \cup (IF coaPc.loop = "emit" THEN {0} ELSE {})

\* The loop has taken the accumulator for a timer-driven emission.
CoaLoopHolds == coaPc.loop \in {"unlocked", "emit"}

\* C11: the accumulator is the left fold, in Add order and seeded with the
\* first value, of exactly the values added since the accumulator was last
\* taken for emission (or since construction), and there is none while
\* nothing was added since; what loop takes at window close, and then
\* emits, is that fold, and taking it clears the accumulator.
C11_EmitsFoldOfWindow ==
  /\ [](/\ coa.hasAcc => /\ coaObs.added # << >>
                         /\ coa.acc = FoldLeft(coaObs.added)
        /\ ~coa.hasAcc => coaObs.added = << >>)
  /\ [][(~CoaLoopHolds /\ CoaLoopHolds') =>
          /\ coaObs.added # << >>
          /\ coaPc'.loopAcc = FoldLeft(coaObs.added)
          /\ ~coa'.hasAcc]_vars
  /\ [][(coaPc.loop = "unlocked" /\ coaPc'.loop = "emit") =>
          coaPc'.loopAcc = coaPc.loopAcc]_vars

\* C11 witness: at window close the loop is emitting the fold of two Adds,
\* 1 then 2, and the accumulator is cleared.
C11_Witness ==
  /\ coaPc.loop = "emit"
  /\ coaPc.loopAcc = Folder(1, 2)
  /\ coaObs.elapsed
  /\ ~coa.hasAcc

\* C12 (as claimed): the loop takes the accumulator for a timer-driven
\* emission only when the window timer armed by the most recent Add has
\* expired, that is when a full window has passed since that Add.
C12_TimerEmitsOnlyAfterFullWindow ==
  [][(~CoaLoopHolds /\ CoaLoopHolds') => coaObs.elapsed]_vars

\* The first Stop has returned: it ran and no caller is inside Stop.
CoaStopFinished ==
  /\ coaObs.stop.ran
  /\ \A c \in Callers :
       coaPc.caller[c] \notin {"StopUnlocked", "StopEmit", "StopOnStop"}

\* The callbacks the claim expects of the first Stop, in order: emit with the
\* accumulator found when the mode flushes and hasAcc held, then onStop with
\* the same accumulator when the mode calls back and onStop is set.
CoaStopExpected ==
  (IF coa.stopMode \in {StopFlush, StopFlushAndCallback} /\ coaObs.stop.hasAcc
     THEN << <<"emit", coaObs.stop.acc>> >> ELSE << >>)
  \o (IF coa.stopMode \in {StopCallbackOnly, StopFlushAndCallback} /\ coa.onStop
       THEN << <<"onStop", coaObs.stop.acc>> >> ELSE << >>)

CoaCallbackBegins ==
  \/ \E c \in Callers :
       /\ coaPc'.caller[c] \in {"FlushEmit", "StopEmit", "StopOnStop"}
       /\ coaPc'.caller[c] # coaPc.caller[c]
  \/ coaPc'.loop = "emit" /\ coaPc.loop # "emit"

\* C14 (as claimed): once a call to Stop has returned, no user callback of
\* the instance begins.
C14_NoCallbackAfterStopReturned ==
  [][coaObs.returned => ~CoaCallbackBegins]_vars

\* C10 (as claimed): at any time at most one user callback of an instance
\* is executing.
C10_CallbacksSerialized == Cardinality(CoaInCallback) <= 1

\* An accumulator is held by a coalescer that is neither stopped nor
\* cancelled.
CoaHolds == coa.hasAcc /\ ~coa.stopped /\ ~coaPc.ctx

\* C28 (as claimed): while a coalescer that is neither stopped nor
\* cancelled holds an accumulator its timer loop is running, and the
\* accumulator is in the end taken for emission (by the loop at window
\* close, when no Flush, Stop or cancellation comes first), whatever Add,
\* Flush and timer-expiry steps went before.
C28_HeldAccumulatorIsEmittedByTimer ==
  /\ [](CoaHolds => coaPc.loop \notin {"off", "done"})
  /\ CoaHolds ~> ~CoaHolds

\* ----------------------------------------------------------- DebouncerByKey

\* Keys of a manager and debouncers that a manager creates.
NumKeys == 2
MaxDbs == 2
Keys == 1..NumKeys
Dbs == 1..MaxDbs

\* The owner of the manager's mutex: 0 is "unlocked", a caller is its own
\* number, the evictor comes after the callers.
EvictorId == NumCallers + 1

\* The IdleTTL durations tried: none (no evictor) and a positive one.
IdleTTLs == {0, 1}

\* A per-key debouncer as the manager sees it: NewDebouncer with the
\* manager's options (trailing here), reduced to stopped and pending.
NewChild == [stopped |-> FALSE, pending |-> FALSE]

\* A nil entry of the nodes map; a node holds its debouncer (the number of
\* the debouncer among those the manager created) and last, the instant it
\* was touched, kept as the time since then: now - last, in units of
\* IdleTTL, which is all that the evictor reads of it. Beyond
\* IdleTTL + 1 the time is not counted further.
NoNode == [db |-> 0, last |-> 0]

\* n.last = time.Now(): no time has passed since.
Touched == 0

\* The clock moves on by one unit: the node is one unit older.
Older(n, ttl) ==
  IF n.db # 0 /\ n.last <= ttl THEN [n EXCEPT !.last = @ + 1] ELSE n

\* NewDebouncerByKey: Wait > 0 is required; the nodes map is empty. dbs are
\* the debouncers that Trigger creates (none yet: made counts them).
NewDebouncerByKey(idleTTL, stopMode, onStop) ==
  [mu    |-> 0,
   opts  |-> [IdleTTL |-> idleTTL, StopMode |-> stopMode, OnStop |-> onStop],
   nodes |-> [k \in Keys |-> NoNode],
   stop  |-> FALSE,
   dbs   |-> [n \in Dbs |-> NewChild],
   made  |-> 0]

\* Callers idle; loc is what a caller holds after it unlocked the manager:
\* the debouncers it still has to call. The evictor runs when IdleTTL > 0;
\* cut and cur are its locals (the cut-off, as the time from it to now, and
\* the key whose debouncer it is stopping) and calledBack says that this
\* Stop ran a user callback.
BkPcInit(idleTTL) ==
  [caller     |-> [c \in Callers |-> "idle"],
   loc        |-> [c \in Callers |-> {}],
   evictor    |-> IF idleTTL > 0 THEN "select" ELSE "off",
   cut        |-> 0,
   cur        |-> 0,
   calledBack |-> FALSE]

\* What has been observed of a manager: how often each debouncer ran its
\* stop mode, whether the first Stop of the manager has returned, and,
\* while the evictor handles a tick, the nodes it found.
BkObsInit ==
  [stops        |-> [n \in Dbs |-> 0],
   stopReturned |-> FALSE,
   tickNodes    |-> [k \in Keys |-> NoNode]]

\* The manager of a run that is about another component: never used.
BkIdle ==
  [bk    |-> NewDebouncerByKey(0, StopNoop, FALSE),
   bkPc  |-> BkPcInit(0),
   bkObs |-> BkObsInit]

\* debouncer.Trigger, Flush and Stop on a per-key debouncer, each under the
\* debouncer's own lock: Trigger marks it pending, Flush calls back and
\* clears pending, Stop sets stopped and clears pending; a stopped
\* debouncer ignores all three.

\* Trigger, as a mutant: a stopped debouncer takes the value too.
ChildTriggerIgnoresStopped(d) == [d EXCEPT !.pending = TRUE]

ChildTrigger(d) == IF d.stopped THEN d ELSE [d EXCEPT !.pending = TRUE]

ChildFlush(d) ==
  IF d.stopped \/ ~d.pending THEN d ELSE [d EXCEPT !.pending = FALSE]

\* Stop runs its stop mode on a debouncer that is not stopped yet.
ChildStopRuns(d) == ~d.stopped

ChildStop(d) == [d EXCEPT !.stopped = TRUE, !.pending = FALSE]

\* Stop of a per-key debouncer runs user code: cb when the mode flushes and
\* a value is pending, the manager's OnStop when the mode calls back and
\* OnStop is set (the debouncer's own OnStop wrapper is always set).
ChildStopCallsBack(m, d) ==
  /\ ChildStopRuns(d)
  /\ \/ m.opts.StopMode \in {StopFlush, StopFlushAndCallback} /\ d.pending
     \/ m.opts.StopMode \in {StopCallbackOnly, StopFlushAndCallback} /\ m.opts.OnStop

\* The manager after method op of its debouncer n has run.
BkChildCall(op, n) ==
  [bk EXCEPT !.dbs[n] =
     IF op = "Trigger" THEN ChildTrigger(@)
     ELSE IF ChildStopRuns(@) THEN ChildStop(@) ELSE @]

\* The history after Stop of debouncer n has run: its stop mode ran if it
\* was not stopped before.
BkStopObs(n) ==
  [bkObs EXCEPT !.stops[n] = IF ChildStopRuns(bk.dbs[n]) THEN @ + 1 ELSE @]

\* Caller c makes a call: it is not inside another one, and it is the first
\* of the callers that are free (the callers are interchangeable).
BkCalls(c) ==
  /\ bkPc.caller[c] = "idle"
  /\ \A d \in Callers : d < c => bkPc.caller[d] # "idle"

\* The debouncers in the nodes map.
BkList(m) == {m.nodes[k].db : k \in {j \in Keys : m.nodes[j].db # 0}}

\* A caller goes on to call the debouncers in list, or returns if none.
BkGoes(c, pc, list) ==
  [bkPc EXCEPT !.caller[c] = IF list = {} THEN "idle" ELSE pc,
               !.loc[c] = list]

\* Key k is in the nodes map, or it is the first of the keys that are not
\* (the keys without a node are interchangeable).
BkKey(k) ==
  \/ bk.nodes[k].db # 0
  \/ \A j \in Keys : j < k => bk.nodes[j].db # 0

\* Trigger(k, v) locks the manager. Stopped: nothing. Else it takes the
\* node of k, creating node and debouncer if there is none, touches it and
\* unlocks; n.db.Trigger(v) follows.
BkTrigger(c, k) ==
  /\ BkCalls(c)
  /\ BkKey(k)
  /\ bk.mu = 0
  /\ bk.nodes[k].db = 0 /\ ~bk.stop => bk.made < MaxDbs
  /\ IF bk.stop
       THEN UNCHANGED <<bk, bkPc>>
       ELSE LET n == IF bk.nodes[k].db = 0 THEN bk.made + 1
                     ELSE bk.nodes[k].db
            IN /\ bk' = [bk EXCEPT !.nodes[k] = [db |-> n, last |-> Touched],
                                   !.made = IF bk.nodes[k].db = 0 THEN n ELSE @]
               /\ bkPc' = BkGoes(c, "Trigger", {n})
  /\ UNCHANGED <<bkObs, notBk>>

\* The manager after Flush of each debouncer in list has run.
BkFlushed(list) ==
  [bk EXCEPT !.dbs = [n \in Dbs |-> IF n \in list THEN ChildFlush(@[n]) ELSE @[n]]]

\* FlushKey(k) locks, takes the node of k and unlocks; none: it returns,
\* else n.db.Flush() follows. (Flush reads and writes its debouncer alone,
\* and as the debouncer's timerLoop may do at any time: Flush is taken
\* at once after the unlock.)
BkFlushKey(c, k) ==
  /\ BkCalls(c)
  /\ BkKey(k)
  /\ bk.mu = 0
  /\ bk' = BkFlushed({bk.nodes[k].db} \ {0})
  /\ UNCHANGED <<bkPc, bkObs, notBk>>

\* FlushAll locks, lists the debouncers of all nodes and unlocks; the Flush
\* calls follow, taken at once as in FlushKey.
BkFlushAll(c) ==
  /\ BkCalls(c)
  /\ bk.mu = 0
  /\ bk' = BkFlushed(BkList(bk))
  /\ UNCHANGED <<bkPc, bkObs, notBk>>

\* Stop locks. Stopped already: nothing. Else it sets stop, lists the
\* debouncers of all nodes and unlocks; the Stop calls follow. With no
\* node it returns.
BkStop(c) ==
  /\ BkCalls(c)
  /\ bk.mu = 0
  /\ IF bk.stop
       THEN UNCHANGED <<bk, bkPc, bkObs>>
       ELSE /\ bk' = [bk EXCEPT !.stop = TRUE]
            /\ bkPc' = BkGoes(c, "Stop", BkList(bk))
            /\ bkObs' = [bkObs EXCEPT !.stopReturned = BkList(bk) = {}]
  /\ UNCHANGED notBk

\* A caller that unlocked the manager calls the method it is in (Trigger,
\* Stop) on one of the debouncers it holds; after the last one it
\* returns. The first Stop of the manager is the only one to get here.
BkCallsChild(c, n) ==
  /\ bkPc.caller[c] # "idle"
  /\ n \in bkPc.loc[c]
  /\ bk' = BkChildCall(bkPc.caller[c], n)
  /\ bkPc' = BkGoes(c, bkPc.caller[c], bkPc.loc[c] \ {n})
  /\ bkObs' = IF bkPc.caller[c] = "Stop"
                THEN [BkStopObs(n) EXCEPT !.stopReturned = bkPc.loc[c] = {n}]
                ELSE bkObs
  /\ UNCHANGED notBk

\* The timerLoop of a per-key debouncer: the wait has passed, it locks the
\* debouncer; a pending value of an unstopped debouncer is called back.
BkChildTimer(n) ==
  /\ n <= bk.made
  /\ bk.dbs[n].pending
  /\ bk' = [bk EXCEPT !.dbs[n] = ChildFlush(@)]
  /\ UNCHANGED <<bkPc, bkObs, notBk>>

\* time.Now() moves on by one unit, while no tick is being handled (the
\* evictor reads the clock once, for cut).
BkClock ==
  /\ bkPc.evictor \notin {"evict", "inStop"}
  /\ \E k \in Keys : Older(bk.nodes[k], bk.opts.IdleTTL) # bk.nodes[k]
  /\ bk' = [bk EXCEPT !.nodes = [k \in Keys |-> Older(@[k], bk.opts.IdleTTL)]]
  /\ UNCHANGED <<bkPc, bkObs, notBk>>

\* The construction-time context is cancelled; evictor, case
\* <-m.ctx.Done(): it returns.
EvictorCancelled ==
  /\ bkPc.evictor = "select"
  /\ bkPc' = [bkPc EXCEPT !.evictor = "cancelled"]
  /\ UNCHANGED <<bk, bkObs, notBk>>

\* n.last.Before(cut), as a mutant: touched before the cut-off or at it.
IdleSinceOrAt(n, cut) == n.last >= cut

\* n.last.Before(cut): the node was last touched before the cut-off, that
\* is a longer time ago than the cut-off is.
IdleSince(n, cut) == n.last > cut

\* The keys that the range loop of the evictor still has to evict.
EvictorTodo == {k \in Keys : bk.nodes[k].db # 0 /\ IdleSince(bk.nodes[k], bkPc.cut)}

\* evictor, case <-t.C: a tick is received and the manager locked. Stopped:
\* it unlocks and returns; else it computes cut and begins to range over
\* the nodes.
EvictorTick ==
  /\ bkPc.evictor = "select"
  /\ bk.mu = 0
  /\ IF bk.stop
       THEN /\ bkPc' = [bkPc EXCEPT !.evictor = "done"]
            /\ UNCHANGED <<bk, bkObs>>
       ELSE /\ bk' = [bk EXCEPT !.mu = EvictorId]
            /\ bkPc' = [bkPc EXCEPT !.evictor = "evict",
                                    !.cut = bk.opts.IdleTTL]
            /\ bkObs' = [bkObs EXCEPT !.tickNodes = bk.nodes]
  /\ UNCHANGED notBk

\* evictor, in the range loop and holding the manager's lock: n.db.Stop()
\* of an idle node is called; the debouncer is stopped, and Stop goes on to
\* its callbacks.
EvictorStopsChild(k) ==
  /\ bkPc.evictor = "evict"
  /\ k \in EvictorTodo
  /\ LET n == bk.nodes[k].db
     IN /\ bk' = BkChildCall("Stop", n)
        /\ bkObs' = BkStopObs(n)
        /\ bkPc' = [bkPc EXCEPT
             !.evictor = "inStop",
             !.cur = k,
             !.calledBack = ChildStopCallsBack(bk, bk.dbs[n])]
  /\ UNCHANGED notBk

\* n.db.Stop() returns to the evictor: delete(m.nodes, k), and on with the
\* range loop.
EvictorStopReturns ==
  /\ bkPc.evictor = "inStop"
  /\ bk' = [bk EXCEPT !.nodes[bkPc.cur] = NoNode]
  /\ bkPc' = [bkPc EXCEPT !.evictor = "evict", !.cur = 0, !.calledBack = FALSE]
  /\ UNCHANGED <<bkObs, notBk>>

\* The callback that n.db.Stop() runs for the evictor calls a method of the
\* manager: m.mu.Lock() blocks for ever, the evictor holds the lock.
EvictorCallbackReenters ==
  /\ bkPc.evictor = "inStop"
  /\ bkPc.calledBack
  /\ bkPc' = [bkPc EXCEPT !.evictor = "deadlock"]
  /\ UNCHANGED <<bk, bkObs, notBk>>

\* evictor, the range loop is over: it unlocks and selects again.
EvictorUnlock ==
  /\ bkPc.evictor = "evict"
  /\ EvictorTodo = {}
  /\ bk' = [bk EXCEPT !.mu = 0]
  /\ bkPc' = [bkPc EXCEPT !.evictor = "select", !.cut = 0]
  /\ bkObs' = [bkObs EXCEPT !.tickNodes = BkObsInit.tickNodes]
  /\ UNCHANGED notBk

BkNext ==
  \/ \E c \in Callers, k \in Keys : BkTrigger(c, k)
  \/ \E c \in Callers, k \in Keys : BkFlushKey(c, k)
  \/ \E c \in Callers : BkFlushAll(c)
  \/ \E c \in Callers : BkStop(c)
  \/ \E c \in Callers, n \in Dbs : BkCallsChild(c, n)
  \/ \E n \in Dbs : BkChildTimer(n)
  \/ BkClock
  \/ EvictorCancelled
  \/ EvictorTick
  \/ \E k \in Keys : EvictorStopsChild(k)
  \/ EvictorStopReturns
  \/ EvictorCallbackReenters
  \/ EvictorUnlock

\* --------------------------------------------------- DebouncerByKey claims

\* The nodes that the tick in hand found when it locked the manager, or,
\* between ticks, the nodes that a tick would find now.
BkTickNodes == IF bkPc.evictor = "evict" THEN bkObs.tickNodes ELSE bk.nodes

\* Key k has a node in nodes that was last touched longer ago than IdleTTL.
BkStale(nodes, k) == nodes[k].db # 0 /\ nodes[k].last > bk.opts.IdleTTL

\* The handling of a tick ends with this step: after the range loop of a
\* manager that runs, or at once for a manager found stopped.
BkTickEndsRunning == bkPc.evictor = "evict" /\ bkPc'.evictor = "select"

BkTickEndsStopped == bkPc.evictor = "select" /\ bkPc'.evictor = "done"

\* What a tick leaves behind, by the claim: stale keys are gone from the
\* map and their debouncers stopped by one run of the stop mode, the other
\* keys are as they were found (BkLiveChildren: with debouncers that are
\* not stopped).
BkTickEvicted ==
  \A k \in Keys :
    LET n == BkTickNodes[k]
    IN IF BkStale(BkTickNodes, k)
         THEN /\ bk'.nodes[k] = NoNode
              /\ bk'.dbs[n.db].stopped
              /\ bkObs'.stops[n.db] = 1
         ELSE bk'.nodes[k] = n

\* A step that gives a key without a node a node gives it a debouncer that
\* no key had before, not stopped and touched now.
BkFreshChild ==
  \A k \in Keys :
    bk.nodes[k].db = 0 /\ bk'.nodes[k].db # 0
      => /\ bk'.nodes[k] = [db |-> bk.made + 1, last |-> Touched]
         /\ bk'.made = bk.made + 1
         /\ bk'.dbs[bk.made + 1] = NewChild
         /\ bkObs'.stops[bk.made + 1] = 0

\* The debouncer of every key in the map of a running manager is not
\* stopped, but for the key that the evictor is about to delete.
BkLiveChildren ==
  ~bk.stop =>
    \A k \in Keys :
      bk.nodes[k].db # 0
        /\ ~(bkPc.evictor \in {"inStop", "deadlock"} /\ bkPc.cur = k)
        => ~bk.dbs[bk.nodes[k].db].stopped

\* C15 (as claimed): with IdleTTL > 0 every eviction tick stops and removes
\* exactly the keys last touched longer ago than IdleTTL and keeps every
\* other key, and a later Trigger on an evicted key creates a fresh,
\* unstopped debouncer.
C15_EveryTickEvictsExactlyIdle ==
  /\ []BkLiveChildren
  /\ [][BkTickEndsRunning \/ BkTickEndsStopped => BkTickEvicted]_vars
  /\ [][BkFreshChild]_vars

\* C15 (amended): the same for every tick that finds the manager running; a
\* tick that finds the manager stopped ends the evictor and leaves the map
\* as it is.
C15_RunningTickEvictsExactlyIdle ==
  /\ []BkLiveChildren
  /\ [][BkTickEndsRunning => BkTickEvicted]_vars
  /\ [][BkTickEndsStopped => bk' = bk /\ bkObs' = bkObs]_vars
  /\ [][BkFreshChild]_vars

\* C15 witness: the range loop of a tick is over; of the two keys it found
\* the idle one is gone and its debouncer stopped, the other one is kept.
C15_Witness ==
  /\ bkPc.evictor = "evict"
  /\ \A k \in Keys : ~(bk.nodes[k].db # 0 /\ bk.nodes[k].last > bk.opts.IdleTTL)
  /\ \E k, j \in Keys :
       /\ BkStale(bkObs.tickNodes, k)
       /\ bk.nodes[k] = NoNode
       /\ bk.dbs[bkObs.tickNodes[k].db].stopped
       /\ bkObs.tickNodes[j].db # 0
       /\ ~BkStale(bkObs.tickNodes, j)
       /\ bk.nodes[j] = bkObs.tickNodes[j]

\* C16 (as claimed): no thread holds the manager's mutex while it is inside
\* a method of a debouncer of the manager, so no callback run by such a
\* method blocks for ever on the manager's mutex.
C16_NoChildCallUnderManagerLock ==
  /\ \A c \in Callers : bkPc.caller[c] # "idle" => bk.mu # c
  /\ bkPc.evictor \in {"inStop", "deadlock"} => bk.mu # EvictorId
  /\ bkPc.evictor # "deadlock"

\* The debouncers that the manager has created.
BkMade == 1..bk.made

\* C17: once the first Stop of the manager has returned, every debouncer in
\* the map is stopped and ran its stop mode once, no debouncer holds a
\* value to call back with, and from then on no step (a late Trigger, a
\* second Stop, a timer) creates a debouncer, makes one pending or runs a
\* stop mode.
C17_ManagerStopStopsEveryChildOnce ==
  /\ [](\A n \in Dbs : bkObs.stops[n] <= 1)
  /\ [](bkObs.stopReturned =>
          /\ bk.stop
          /\ \A k \in Keys : bk.nodes[k].db # 0 =>
               /\ bk.dbs[bk.nodes[k].db].stopped
               /\ bkObs.stops[bk.nodes[k].db] = 1
          /\ \A n \in BkMade : ~bk.dbs[n].pending)
  /\ [][bkObs.stopReturned =>
          /\ bk'.made = bk.made
          /\ bk'.dbs = bk.dbs
          /\ bkObs' = bkObs
          /\ \A k \in Keys : bk'.nodes[k].db = bk.nodes[k].db]_vars

\* C17 witness: the first Stop has returned and stopped the debouncer of a
\* key while a Trigger for it, begun before, has yet to call the debouncer.
C17_Witness ==
  /\ bkObs.stopReturned
  /\ \E c \in Callers :
       /\ bkPc.caller[c] = "Trigger"
       /\ \E n \in bkPc.loc[c] : bk.dbs[n].stopped /\ bkObs.stops[n] = 1

\* Caller c, in Trigger of a manager that is still running, forwards the
\* value with this step: n.db.Trigger(v) on the debouncer n it looked up.
BkForwards(c, n) ==
  /\ bkPc.caller[c] = "Trigger"
  /\ ~bk.stop
  /\ BkCallsChild(c, n)

\* C29 (as claimed): a value passed to Trigger of a running manager is
\* forwarded to a debouncer that is live, not stopped and in the nodes map:
\* the evictor does not stop and remove it between the lookup under the
\* manager's lock and the forwarding call, and the debouncer takes the
\* value.
C29_ForwardedToLiveChild ==
  [][\A c \in Callers, n \in Dbs :
       BkForwards(c, n) => /\ ~bk.dbs[n].stopped
                           /\ n \in BkList(bk)
                           /\ bk'.dbs[n].pending]_vars

\* -------------------------------------------------------------------- Codec

\* A word is a uint64 of the program, kept here with WordBits bits: all
\* arithmetic on words wraps modulo 2^WordBits. A body has BodyLen
\* characters (11 in the program, where 62^11 > 2^64; here
\* Base^BodyLen > 2^WordBits as well), an HMAC sum DigestLen bytes (32).
WordBits == 5
BodyLen == 2
DigestLen == 1
WordMod == 2 ^ WordBits
Words == 0..(WordMod - 1)

\* Largest Config.MacLen tried; the smallest is 0, which is refused.
MaxMacLen == 2
MacLens == 0..MaxMacLen

\* base := uint64(62), the number of characters used of an alphabet.
Base == 62

\* The bit reservoir of hmacPadding: bytes of 8 bits in, values of 6 bits
\* out, and 2 taken off a value of 62 or 63.
ByteBits == 8
ChunkBits == 6
ChunkFix == 2

\* The rotations of permutation.
Rot17 == 17
Rot31 == 31

\* A nil Config.Kind (a *byte).
Nil == -1

ErrInvalidLength == "idcodec: invalid length"
ErrVersionMismatch == "idcodec: version mismatch"
ErrMACVerification == "idcodec: MAC verification failed"
ErrInvalidBase62Char == "idcodec: invalid base62 character"
ErrBadConfig == "idcodec: bad config"
NoErr == "nil"

\* Strings are sequences of bytes. DefaultAlphabet is 0-9, A-Z, a-z.
DefaultAlphabet ==
  [i \in 1..62 |-> IF i <= 10 THEN 47 + i ELSE IF i <= 36 THEN 54 + i ELSE 60 + i]

\* The alphabets tried: "" (the default is taken), the alphabet A-Z, a-z,
\* 0-9 of TestAlphabetOverride_Works, one of 62 characters of which the
\* last is the first once more, and "abc".
OverrideAlphabet ==
  [i \in 1..62 |-> IF i <= 26 THEN 64 + i ELSE IF i <= 52 THEN 70 + i ELSE i - 5]

RepeatingAlphabet == [DefaultAlphabet EXCEPT ![62] = DefaultAlphabet[1]]

Alphabets == {<< >>, OverrideAlphabet, RepeatingAlphabet, <<97, 98, 99>>}

\* The Config.Version values tried: 62 is refused.
Versions == {0, 61, 62}

\* The secrets tried, and Domain with Kind: neither, or both.
Secrets == {1, 2}
DomainKinds == {[domain |-> << >>, kind |-> Nil], [domain |-> <<68>>, kind |-> 85]}

\* crypto/sha256 and crypto/hmac are not of this repository: in their
\* place a function of the same arguments that mixes every byte of its
\* input into every byte of its sum.
RECURSIVE Mix(_, _, _)
Mix(h, msg, j) ==
  IF j > Len(msg) THEN h
  ELSE Mix((h * 31 + msg[j] * (j + 6) + 7) % (2 ^ ByteBits), msg, j + 1)

Sum(key, msg, len) == [i \in 1..len |-> Mix((key + 97 * i) % (2 ^ ByteBits), msg, 1)]

\* x XOR y on words of n bits.
RECURSIVE Xor(_, _, _)
Xor(x, y, n) ==
  IF n = 0 THEN 0
  ELSE ((x + y) % 2) + 2 * Xor(x \div 2, y \div 2, n - 1)

\* bits.RotateLeft64(x, k), on a word of WordBits bits: to the left by k
\* modulo the width (to the right for a negative k).
RotateLeft(x, k) ==
  LET r == k % WordBits
  IN ((x * (2 ^ r)) % WordMod) + (x \div (2 ^ (WordBits - r)))

\* NewCodecFromSecret: the three refusals; else the alphabet ("" is the
\* default), the four words k1..k4 cut from the sum derive('K'), macKey
\* from derive('M'). c.rev is not kept as a field: Rev below is what the
\* constructor's loop leaves in it.
NewCodecFromSecret(cfg) ==
  IF cfg.MacLen <= 0 THEN [err |-> ErrBadConfig]
  ELSE IF cfg.Version >= 62 THEN [err |-> ErrBadConfig]
  ELSE LET alp == IF cfg.Alphabet = << >> THEN DefaultAlphabet ELSE cfg.Alphabet
       IN IF Len(alp) < 62 THEN [err |-> ErrBadConfig]
          ELSE LET kMaster == Sum(0, <<cfg.Secret>>, 1)[1]
                   kRaw == Sum(0, <<kMaster, 75>>, 4)
                   mac == Sum(0, <<kMaster, 77>>, 1)[1]
               IN [err      |-> NoErr,
                   version  |-> cfg.Version,
                   macLen   |-> cfg.MacLen,
                   alphabet |-> alp,
                   k1       |-> kRaw[1] % WordMod,
                   k2       |-> kRaw[2] % WordMod,
                   k3       |-> kRaw[3] % WordMod,
                   k4       |-> kRaw[4] % WordMod,
                   macKey   |-> mac,
                   domain   |-> cfg.Domain,
                   kind     |-> cfg.Kind]

\* c.rev[b] after the constructor's loops: -1, overwritten by i for
\* alp[i] = b, i = 0..61 in turn: the last such i, or -1. (Indices of
\* sequences are one more than indices of the program.)
RECURSIVE RevUpTo(_, _, _)
RevUpTo(alp, b, n) ==
  IF n = 0 THEN -1
  ELSE IF alp[n] = b THEN n - 1
  ELSE RevUpTo(alp, b, n - 1)

Rev(c, b) == RevUpTo(c.alphabet, b, IF Len(c.alphabet) < 62 THEN Len(c.alphabet) ELSE 62)

\* base62EncodeFixed: the digits of u from the last place of buf to the
\* first.
RECURSIVE EncodeDigits(_, _, _)
EncodeDigits(c, u, n) ==
  IF n = 0 THEN << >>
  ELSE Append(EncodeDigits(c, u \div Base, n - 1), c.alphabet[(u % Base) + 1])

base62EncodeFixed(c, u) == EncodeDigits(c, u, BodyLen)

\* base62DecodeFixed: the length, then digit by digit from the first
\* place; u = u*base + v wraps as a word does.
RECURSIVE DecodeDigits(_, _, _, _)
DecodeDigits(c, s, i, u) ==
  IF i > Len(s) THEN [u |-> u, err |-> NoErr]
  ELSE IF Rev(c, s[i]) < 0 THEN [u |-> 0, err |-> ErrInvalidBase62Char]
  ELSE DecodeDigits(c, s, i + 1, (u * Base + Rev(c, s[i])) % WordMod)

base62DecodeFixed(c, s) ==
  IF Len(s) # BodyLen THEN [u |-> 0, err |-> ErrInvalidLength]
  ELSE DecodeDigits(c, s, 1, 0)

\* toBytes8: the bytes of a word, big-endian (a word of WordBits bits is
\* one byte).
toBytes8(u) == <<u>>

permutation(c, x) ==
  LET x1 == Xor(x, c.k1, WordBits)
      x2 == RotateLeft(x1, Rot17)
      x3 == (x2 + c.k2) % WordMod
      x4 == RotateLeft(x3, Rot31)
      x5 == Xor(x4, c.k3, WordBits)
  IN (x5 + c.k4) % WordMod

\* inversePermutation, as a mutant: the second rotation is to the left
\* again.
inversePermutationRotatesLeft(c, x) ==
  LET x1 == (x + WordMod - c.k4) % WordMod
      x2 == Xor(x1, c.k3, WordBits)
      x3 == RotateLeft(x2, Rot31)
      x4 == (x3 + WordMod - c.k2) % WordMod
      x5 == RotateLeft(x4, -Rot17)
  IN Xor(x5, c.k1, WordBits)

inversePermutation(c, x) ==
  LET x1 == (x + WordMod - c.k4) % WordMod
      x2 == Xor(x1, c.k3, WordBits)
      x3 == RotateLeft(x2, -Rot31)
      x4 == (x3 + WordMod - c.k2) % WordMod
      x5 == RotateLeft(x4, -Rot17)
  IN Xor(x5, c.k1, WordBits)

\* hmacPadding, the loop "for idx < c.macLen": out so far, the bit
\* buffer, the number of bits in it and the bytes of sum taken. Bytes are
\* shifted in while there are fewer than 6 bits; when sum is used up the
\* buffer is filled up with zero bits; the top 6 bits are a value, less 2
\* from 62 on, and the value's character is put out.
RECURSIVE PadLoop(_, _, _, _, _, _)
PadLoop(c, sum, out, bitbuf, bitsIn, src) ==
  IF Len(out) >= c.macLen THEN out
  ELSE IF bitsIn < ChunkBits /\ src < Len(sum)
    THEN PadLoop(c, sum, out, bitbuf * (2 ^ ByteBits) + sum[src + 1],
                 bitsIn + ByteBits, src + 1)
    ELSE LET buf   == IF bitsIn < ChunkBits
                        THEN bitbuf * (2 ^ (ChunkBits - bitsIn)) ELSE bitbuf
             in    == IF bitsIn < ChunkBits THEN ChunkBits ELSE bitsIn
             shift == in - ChunkBits
             v     == (buf \div (2 ^ shift)) % (2 ^ ChunkBits)
             val   == IF v >= Base THEN v - ChunkFix ELSE v
         IN PadLoop(c, sum, Append(out, c.alphabet[val + 1]),
                    buf % (2 ^ shift), shift, src)

\* hmacPadding, the four h.Write calls: the bytes the HMAC is taken of,
\* one after the other with nothing between them.
hmacInput(c, encrypted, kind) ==
  c.domain
  \o (IF kind # Nil THEN <<kind>> ELSE << >>)
  \o <<c.alphabet[c.version + 1]>>
  \o toBytes8(encrypted)

\* hmacPadding: the HMAC under macKey of domain (if any), kind (if any),
\* the version character and the bytes of the word, turned into macLen
\* characters. (Of the bit buffer the bits already put out are dropped:
\* they are never read again.)
hmacPadding(c, encrypted, kind) ==
  PadLoop(c, Sum(c.macKey, hmacInput(c, encrypted, kind), DigestLen), << >>, 0, 0, 0)

token(c, enc, kind) ==
  <<c.alphabet[c.version + 1]>> \o base62EncodeFixed(c, enc) \o hmacPadding(c, enc, kind)

EncodeUint64WithKind(c, id, kind) == token(c, permutation(c, id), kind)

EncodeUint64(c, id) == EncodeUint64WithKind(c, id, c.kind)

\* decodeInternal, the version check, as a mutant: any character of the
\* alphabet passes.
VersionCharInAlphabet(c, verCh) == Rev(c, verCh) >= 0

\* decodeInternal: c.rev[verCh] == int8(c.version).
VersionCharMatches(c, verCh) == Rev(c, verCh) = c.version

\* decodeInternal: the length, the version character, the body, the pad,
\* in this order; the first that fails is the error returned.
decodeInternal(c, s, needValue, kind) ==
  IF Len(s) # 1 + BodyLen + c.macLen THEN [val |-> 0, err |-> ErrInvalidLength]
  ELSE IF ~VersionCharMatches(c, s[1]) THEN [val |-> 0, err |-> ErrVersionMismatch]
  ELSE LET body == base62DecodeFixed(c, SubSeq(s, 2, 1 + BodyLen))
           pad  == SubSeq(s, 2 + BodyLen, Len(s))
       IN IF body.err # NoErr THEN [val |-> 0, err |-> body.err]
          ELSE IF pad # hmacPadding(c, body.u, kind)
            THEN [val |-> 0, err |-> ErrMACVerification]
          ELSE IF ~needValue THEN [val |-> 0, err |-> NoErr]
          ELSE [val |-> inversePermutation(c, body.u), err |-> NoErr]

DecodeToUint64WithKind(c, s, kind) == decodeInternal(c, s, TRUE, kind)

DecodeToUint64(c, s) == DecodeToUint64WithKind(c, s, c.kind)

\* No call made yet.
CdcIoInit == [op |-> "none", id |-> 0, tok |-> << >>, in |-> << >>, val |-> 0, err |-> NoErr]

\* The codec of a run that is about another component: never used.
CdcIdle ==
  [cdc   |-> [err |-> ErrBadConfig],
   cdcIo |-> CdcIoInit]

\* Characters written into a token to spoil it: one outside the alphabets
\* tried ('~') and one inside ('0').
TamperChars == {126, 48}

\* The strings handed to Decode after Encode returned tok: tok itself;
\* tok with one character replaced; tok with the version character and
\* the first body character replaced; tok, and tok with these two
\* characters spoilt, cut short by one character or longer by one; and
\* the empty string.
Inputs(tok) ==
  LET singles == {[tok EXCEPT ![p] = ch] : p \in 1..Len(tok), ch \in TamperChars}
      doubles == {[tok EXCEPT ![1] = a, ![2] = b] : a \in TamperChars, b \in TamperChars}
      spoilt  == {tok, [tok EXCEPT ![1] = 126, ![2] = 126]}
  IN {tok} \cup singles \cup doubles
     \cup {SubSeq(s, 1, Len(s) - 1) : s \in spoilt}
     \cup {Append(s, 48) : s \in spoilt}
     \cup {<< >>}

\* One more string handed to Decode: tok with its body replaced by the
\* digits of the body's value plus 2^WordBits (none when that number does
\* not fit into BodyLen digits).
Wrapped(c, tok) ==
  LET body == base62DecodeFixed(c, SubSeq(tok, 2, 1 + BodyLen))
  IN IF body.err # NoErr \/ body.u + WordMod >= Base ^ BodyLen THEN {}
     ELSE {SubSeq(tok, 1, 1) \o EncodeDigits(c, body.u + WordMod, BodyLen)
             \o SubSeq(tok, 2 + BodyLen, Len(tok))}

\* c.EncodeUint64(id) on a codec that construction accepted. (A codec does
\* not change after construction and no call depends on an earlier one: a
\* run is one Encode and one Decode.)
CdcEncode(id) ==
  /\ cdc.err = NoErr
  /\ cdcIo.op = "none"
  /\ cdcIo' = [CdcIoInit EXCEPT !.op = "Encode", !.id = id,
                                !.tok = EncodeUint64(cdc, id)]
  /\ UNCHANGED <<cdc, notCdc>>

\* c.DecodeToUint64(s), s the token of the Encode before or a string made
\* from it.
CdcDecode ==
  /\ cdc.err = NoErr
  /\ cdcIo.op = "Encode"
  /\ \E s \in Inputs(cdcIo.tok) \cup Wrapped(cdc, cdcIo.tok) :
       LET r == DecodeToUint64(cdc, s)
       IN cdcIo' = [cdcIo EXCEPT !.op = "Decode", !.in = s,
                                 !.val = r.val, !.err = r.err]
  /\ UNCHANGED <<cdc, notCdc>>

CdcNext ==
  \/ \E id \in Words : CdcEncode(id)
  \/ CdcDecode

\* The subkeys k1..k4 tried apart from those that the secrets tried give:
\* no bit set, the lowest bit, the highest and every second bit, all bits.
SubKeys == {0, 1, (WordMod \div 2) + 5, WordMod - 1}

\* c.permutation: of any word when no call was made yet (id is that
\* word), of the word that c.inversePermutation returned before.
CdcPermutes ==
  /\ cdc.err = NoErr
  /\ \/ /\ cdcIo.op = "none"
        /\ \E x \in Words :
             cdcIo' = [CdcIoInit EXCEPT !.op = "permutation", !.id = x,
                                        !.val = permutation(cdc, x)]
     \/ /\ cdcIo.op = "inversePermutation"
        /\ cdcIo' = [cdcIo EXCEPT !.op = "inversePermutation, permutation",
                                  !.val = permutation(cdc, cdcIo.val)]
  /\ UNCHANGED <<cdc, notCdc>>

\* c.inversePermutation: likewise.
CdcInverts ==
  /\ cdc.err = NoErr
  /\ \/ /\ cdcIo.op = "none"
        /\ \E x \in Words :
             cdcIo' = [CdcIoInit EXCEPT !.op = "inversePermutation", !.id = x,
                                        !.val = inversePermutation(cdc, x)]
     \/ /\ cdcIo.op = "permutation"
        /\ cdcIo' = [cdcIo EXCEPT !.op = "permutation, inversePermutation",
                                  !.val = inversePermutation(cdc, cdcIo.val)]
  /\ UNCHANGED <<cdc, notCdc>>

PermNext ==
  \/ CdcPermutes
  \/ CdcInverts

\* --------------------------------------------------------------- MultiCodec

\* The ids encoded on a MultiCodec, and the longest list Old tried.
MaxId == 1
Ids == 0..MaxId
MaxOld == 2

\* The configurations a MultiCodec's codecs are made from: one of the
\* first secret, version 0, the longest pad, no domain and no kind; the
\* same with a domain of one byte; with that byte as kind; with the other
\* secret and another version; with a pad of one character.
McConfig(s, v, m, d, k) ==
  [Secret |-> s, Version |-> v, MacLen |-> m, Alphabet |-> << >>, Domain |-> d, Kind |-> k]

McConfigs ==
  { McConfig(1, 0, MaxMacLen, << >>, Nil),
    McConfig(1, 0, MaxMacLen, <<85>>, Nil),
    McConfig(1, 0, MaxMacLen, << >>, 85),
    McConfig(2, 61, MaxMacLen, << >>, Nil),
    McConfig(1, 0, 1, << >>, Nil) }

\* MultiCodec{Cur: ..., Old: ...} of codecs that construction accepted.
NewMultiCodec(cur, old) ==
  [Cur |-> NewCodecFromSecret(cur),
   Old |-> [i \in 1..Len(old) |-> NewCodecFromSecret(old[i])]]

\* No call made yet; by is the codec that made tok: 0 is Cur, i is Old[i].
McIoInit ==
  [op |-> "none", by |-> 0, id |-> 0, tok |-> << >>, in |-> << >>, val |-> 0, err |-> NoErr]

\* The MultiCodec of a run that is about another component: never used.
McIdle ==
  [mc   |-> [Cur |-> [err |-> ErrBadConfig], Old |-> << >>],
   mcIo |-> McIoInit]

\* MultiCodec.EncodeUint64.
MultiEncodeUint64(m, id) == EncodeUint64(m.Cur, id)

\* MultiCodec.DecodeToUint64, the loop over m.Old from Old[i] on, as a
\* mutant: the error of the last codec tried is returned.
RECURSIVE OldDecodeKeepsError(_, _, _)
OldDecodeKeepsError(old, s, i) ==
  IF i > Len(old) THEN [val |-> 0, err |-> ErrMACVerification]
  ELSE LET r == DecodeToUint64(old[i], s)
       IN IF r.err = NoErr \/ i = Len(old) THEN r
          ELSE OldDecodeKeepsError(old, s, i + 1)

\* MultiCodec.DecodeToUint64, the loop over m.Old from Old[i] on and the
\* return after it.
RECURSIVE OldDecode(_, _, _)
OldDecode(old, s, i) ==
  IF i > Len(old) THEN [val |-> 0, err |-> ErrMACVerification]
  ELSE LET r == DecodeToUint64(old[i], s)
       IN IF r.err = NoErr THEN r
          ELSE OldDecode(old, s, i + 1)

\* MultiCodec.DecodeToUint64: m.Cur first.
MultiDecodeToUint64(m, s) ==
  LET r == DecodeToUint64(m.Cur, s)
  IN IF r.err = NoErr THEN r ELSE OldDecode(m.Old, s, 1)

\* m.EncodeUint64(id).
McEncode(id) ==
  /\ mcIo.op = "none"
  /\ mcIo' = [McIoInit EXCEPT !.op = "Encode", !.id = id,
                              !.tok = MultiEncodeUint64(mc, id)]
  /\ UNCHANGED <<mc, notMc>>

\* m.Old[i].EncodeUint64(id): a token that Old[i] gave out when it was the
\* current codec.
McOldEncode(i, id) ==
  /\ mcIo.op = "none"
  /\ i \in 1..Len(mc.Old)
  /\ mcIo' = [McIoInit EXCEPT !.op = "Encode", !.by = i, !.id = id,
                              !.tok = EncodeUint64(mc.Old[i], id)]
  /\ UNCHANGED <<mc, notMc>>

\* m.DecodeToUint64(s), s the token of the Encode before, or that token
\* with its last character replaced, with a body character outside the
\* alphabet, or cut short by one character.
McDecode ==
  /\ mcIo.op = "Encode"
  /\ LET tok == mcIo.tok
     IN \E s \in {tok, [tok EXCEPT ![Len(tok)] = 48], [tok EXCEPT ![2] = 126],
                  SubSeq(tok, 1, Len(tok) - 1)} :
          LET r == MultiDecodeToUint64(mc, s)
          IN mcIo' = [mcIo EXCEPT !.op = "Decode", !.in = s,
                                  !.val = r.val, !.err = r.err]
  /\ UNCHANGED <<mc, notMc>>

McNext ==
  \/ \E id \in Ids : McEncode(id)
  \/ \E i \in 1..MaxOld, id \in Ids : McOldEncode(i, id)
  \/ McDecode

\* ------------------------------------------------------------- Codec claims

\* C19 (as claimed): on every codec that construction accepted, and for
\* every id, Encode(id) has 1 + body length + macLen characters, the first
\* of them alphabet[version], and Decode of it returns id and no error.
C19_RoundTripOnEveryAcceptedCodec ==
  /\ cdcIo.op # "none" =>
       /\ Len(cdcIo.tok) = 1 + BodyLen + cdc.macLen
       /\ cdcIo.tok[1] = cdc.alphabet[cdc.version + 1]
  /\ (cdcIo.op = "Decode" /\ cdcIo.in = cdcIo.tok) =>
       /\ cdcIo.err = NoErr
       /\ cdcIo.val = cdcIo.id

\* Character ch is one of the 62 characters used of the codec's alphabet.
CdcInAlphabet(ch) == \E i \in 1..62 : cdc.alphabet[i] = ch

\* The reverse lookup of ch gives digit d: ch is at place d of the
\* alphabet and at no later place of the 62.
CdcLooksUp(ch, d) ==
  /\ cdc.alphabet[d + 1] = ch
  /\ \A j \in (d + 2)..62 : cdc.alphabet[j] # ch

\* C20: Decode checks the length, the version character, the body
\* characters and the pad in this order and returns the error of the first
\* check that fails: a string of another length than 1 + body length +
\* macLen gives InvalidLength whatever it holds; one of the right length
\* whose first character is not alphabet[version] (whose reverse lookup is
\* not version) gives VersionMismatch whatever its body holds; then a body
\* character outside the alphabet gives InvalidBase62Char; only then a pad
\* other than the one computed from the body gives MACVerification; and
\* with no check failing there is no error.
C20_DecodeChecksInOrder ==
  cdcIo.op = "Decode" =>
    LET s        == cdcIo.in
        rightLen == Len(s) = 1 + BodyLen + cdc.macLen
        verOk    == CdcLooksUp(s[1], cdc.version)
        bodyOk   == \A p \in 2..(1 + BodyLen) : CdcInAlphabet(s[p])
        body     == base62DecodeFixed(cdc, SubSeq(s, 2, 1 + BodyLen))
        padOk    == SubSeq(s, 2 + BodyLen, Len(s)) = hmacPadding(cdc, body.u, cdc.kind)
    IN /\ ~rightLen => cdcIo.err = ErrInvalidLength
       /\ (rightLen /\ s[1] # cdc.alphabet[cdc.version + 1])
            => cdcIo.err = ErrVersionMismatch
       /\ (rightLen /\ ~verOk) => cdcIo.err = ErrVersionMismatch
       /\ (rightLen /\ verOk /\ ~bodyOk) => cdcIo.err = ErrInvalidBase62Char
       /\ (rightLen /\ verOk /\ bodyOk /\ ~padOk) => cdcIo.err = ErrMACVerification
       /\ (rightLen /\ verOk /\ bodyOk /\ padOk) => cdcIo.err = NoErr

\* C20 witness: a string of the right length with a wrong version
\* character and a body character outside the alphabet was refused with
\* VersionMismatch.
C20_Witness ==
  /\ cdcIo.op = "Decode"
  /\ Len(cdcIo.in) = 1 + BodyLen + cdc.macLen
  /\ cdcIo.in[1] # cdc.alphabet[cdc.version + 1]
  /\ ~CdcInAlphabet(cdcIo.in[2])
  /\ cdcIo.err = ErrVersionMismatch

\* The 62 characters used of the codec's alphabet are all different.
CdcDistinctAlphabet ==
  \A i, j \in 1..62 : i # j => cdc.alphabet[i] # cdc.alphabet[j]

\* C30 (as claimed): on a codec whose alphabet has 62 different characters
\* two different bodies made of alphabet characters, that of the token and
\* that of the string handed to Decode, do not decode to the same word
\* (nothing wraps around), and a string that Decode accepts is the token
\* that Encode gives for the id returned.
C30_AcceptedIsTheEncodedToken ==
  (cdcIo.op = "Decode" /\ CdcDistinctAlphabet /\ Len(cdcIo.in) = Len(cdcIo.tok)) =>
    LET bodyIn  == SubSeq(cdcIo.in, 2, 1 + BodyLen)
        bodyTok == SubSeq(cdcIo.tok, 2, 1 + BodyLen)
        uIn     == base62DecodeFixed(cdc, bodyIn)
        uTok    == base62DecodeFixed(cdc, bodyTok)
    IN /\ (bodyIn # bodyTok /\ uIn.err = NoErr /\ uTok.err = NoErr) => uIn.u # uTok.u
       /\ cdcIo.err = NoErr => cdcIo.in = EncodeUint64(cdc, cdcIo.val)

\* C26: permutation and inversePermutation undo each other on every word,
\* whatever the four subkeys are: a word put through the one and then the
\* other is the word again, in either order, the additions wrapping
\* around at the width of a word.
C26_PermutationsAreMutualInverses ==
  /\ cdcIo.op \in {"permutation, inversePermutation",
                    "inversePermutation, permutation"} => cdcIo.val = cdcIo.id
  /\ cdcIo.op = "none" =>
       \A x \in Words : /\ inversePermutation(cdc, permutation(cdc, x)) = x
                         /\ permutation(cdc, inversePermutation(cdc, x)) = x

\* C26 witness: under subkeys whose additions wrap around, a word went
\* through permutation to another word and came back through
\* inversePermutation.
C26_Witness ==
  /\ cdcIo.op = "permutation, inversePermutation"
  /\ cdcIo.val = cdcIo.id
  /\ cdcIo.id = WordMod - 1
  /\ cdc.k2 = WordMod - 1 /\ cdc.k4 = WordMod - 1
  /\ permutation(cdc, cdcIo.id) # cdcIo.id

\* Codecs c1 and c2 are of the same secret and version (and alphabet and
\* pad length), and differ in domain or in kind.
McDifferOnlyInDomainKind(c1, c2) ==
  /\ c1.macKey = c2.macKey
  /\ <<c1.k1, c1.k2, c1.k3, c1.k4>> = <<c2.k1, c2.k2, c2.k3, c2.k4>>
  /\ c1.version = c2.version
  /\ c1.alphabet = c2.alphabet
  /\ c1.macLen = c2.macLen
  /\ <<c1.domain, c1.kind>> # <<c2.domain, c2.kind>>

\* C21 (as claimed): when Old[i] and Cur are of the same secret and
\* version and differ in domain or in kind, the HMACs in the tokens of
\* Old[i] and of Cur for the same id are taken of different bytes (so that
\* a collision-free HMAC gives different pads), and where the pads differ
\* the tokens differ and Cur refuses the token of Old[i] with
\* MACVerification.
C21_DomainAndKindSeparateTokens ==
  (mcIo.op = "Encode" /\ mcIo.by > 0
     /\ McDifferOnlyInDomainKind(mc.Old[mcIo.by], mc.Cur)) =>
    LET c1   == mc.Old[mcIo.by]
        c2   == mc.Cur
        enc  == permutation(c1, mcIo.id)
        tok2 == EncodeUint64(c2, mcIo.id)
    IN /\ hmacInput(c1, enc, c1.kind) # hmacInput(c2, enc, c2.kind)
       /\ hmacPadding(c1, enc, c1.kind) # hmacPadding(c2, enc, c2.kind) =>
            /\ mcIo.tok # tok2
            /\ DecodeToUint64(c2, mcIo.tok).err = ErrMACVerification

\* C22: MultiCodec.Encode returns the token of the current codec;
\* MultiCodec.Decode returns the id that the first codec accepting the
\* string returns for it, the current codec being tried first and then
\* the older ones in the order of the list, and no error; when no codec
\* accepts the string it returns MACVerification (and 0), whatever the
\* errors of the codecs were.
C22_MultiCodecFirstAcceptingWins ==
  /\ (mcIo.op # "none" /\ mcIo.by = 0) => mcIo.tok = EncodeUint64(mc.Cur, mcIo.id)
  /\ mcIo.op = "Decode" =>
       LET codecs    == <<mc.Cur>> \o mc.Old
           results   == [j \in 1..Len(codecs) |-> DecodeToUint64(codecs[j], mcIo.in)]
           accepting == {j \in 1..Len(codecs) : results[j].err = NoErr}
       IN /\ accepting = {} => (mcIo.err = ErrMACVerification /\ mcIo.val = 0)
          /\ \A j \in accepting :
               (\A k \in 1..(j - 1) : k \notin accepting) =>
                 (mcIo.err = NoErr /\ mcIo.val = results[j].val)

\* C22 witness: a string that the current codec refused with
\* VersionMismatch, the first older codec with InvalidLength and the second
\* with MACVerification was refused with MACVerification.
C22_Witness ==
  /\ mcIo.op = "Decode"
  /\ Len(mc.Old) = 2
  /\ DecodeToUint64(mc.Cur, mcIo.in).err = ErrVersionMismatch
  /\ DecodeToUint64(mc.Old[1], mcIo.in).err = ErrInvalidLength
  /\ DecodeToUint64(mc.Old[2], mcIo.in).err = ErrMACVerification
  /\ mcIo.err = ErrMACVerification

\* ---------------------------------------------------------------- specifications

\* A throttler fresh from NewThrottler, for every opts.Burst and with or
\* without opts.OnStop.
InitThrottler ==
  /\ \E b \in OptsBursts, f \in BOOLEAN : thr = NewThrottler(b, f)
  /\ thrPc = [caller |-> [c \in Callers |-> "idle"],
              res    |-> [c \in Callers |-> "none"],
              refill |-> "select",
              ctx    |-> FALSE]
  /\ thrObs = ThrObsInit
  /\ deb = DebIdle.deb /\ debPc = DebIdle.debPc /\ debObs = DebIdle.debObs
  /\ coa = CoaIdle.coa /\ coaPc = CoaIdle.coaPc /\ coaObs = CoaIdle.coaObs
  /\ bk = BkIdle.bk /\ bkPc = BkIdle.bkPc /\ bkObs = BkIdle.bkObs
  /\ cdc = CdcIdle.cdc /\ cdcIo = CdcIdle.cdcIo
  /\ mc = McIdle.mc /\ mcIo = McIdle.mcIo

SpecThrottler == InitThrottler /\ [][ThrNext]_vars

\* The same with the goroutines scheduled: while refill is in its loop the
\* ticker goes on ticking and refill takes its ticks, an Acquire that was
\* called enters its select, and an Acquire that its select has left
\* returns. (Calls, Stop's callback and cancellations need not happen.)
SpecThrottlerLive ==
  /\ InitThrottler
  /\ [][ThrNext]_vars
  /\ SF_vars(RefillTick)
  /\ \A c \in Callers : SF_vars(AcquireSelect(c)) /\ WF_vars(AcquireReturn(c))

\* The MaxWait durations tried: none, and a positive one.
MaxWaits == {0, 1}

\* A debouncer fresh from NewDebouncer, for every combination of options.
InitDebouncer ==
  /\ \E l \in BOOLEAN, t \in BOOLEAN, w \in MaxWaits, m \in StopModes, f \in BOOLEAN :
       deb = NewDebouncer(l, t, w, m, f)
  /\ debPc = DebPcInit
  /\ debObs = DebObsInit
  /\ thr = ThrIdle.thr /\ thrPc = ThrIdle.thrPc /\ thrObs = ThrIdle.thrObs
  /\ coa = CoaIdle.coa /\ coaPc = CoaIdle.coaPc /\ coaObs = CoaIdle.coaObs
  /\ bk = BkIdle.bk /\ bkPc = BkIdle.bkPc /\ bkObs = BkIdle.bkObs
  /\ cdc = CdcIdle.cdc /\ cdcIo = CdcIdle.cdcIo
  /\ mc = McIdle.mc /\ mcIo = McIdle.mcIo

SpecDebouncer == InitDebouncer /\ [][DebNext]_vars

\* A coalescer fresh from NewCoalescer, for every stop mode and with or
\* without OnStop.
InitCoalescer ==
  /\ \E m \in StopModes, f \in BOOLEAN : coa = NewCoalescer(m, f)
  /\ coaPc = CoaPcInit
  /\ coaObs = CoaObsInit
  /\ thr = ThrIdle.thr /\ thrPc = ThrIdle.thrPc /\ thrObs = ThrIdle.thrObs
  /\ deb = DebIdle.deb /\ debPc = DebIdle.debPc /\ debObs = DebIdle.debObs
  /\ bk = BkIdle.bk /\ bkPc = BkIdle.bkPc /\ bkObs = BkIdle.bkObs
  /\ cdc = CdcIdle.cdc /\ cdcIo = CdcIdle.cdcIo
  /\ mc = McIdle.mc /\ mcIo = McIdle.mcIo

SpecCoalescer == InitCoalescer /\ [][CoaNext]_vars

\* The same with the timer and the loop goroutine scheduled: an armed
\* timer expires, and loop takes each of its steps when it can. (Calls
\* and cancellations need not happen.)
SpecCoalescerLive ==
  /\ InitCoalescer
  /\ [][CoaNext]_vars
  /\ WF_vars(CoaTimerFires)
  /\ WF_vars(CoaLoopReceives)
  /\ WF_vars(CoaLoopHandles)
  /\ WF_vars(CoaLoopEmit)
  /\ WF_vars(CoaLoopEmitReturn)

\* A manager fresh from NewDebouncerByKey, with or without eviction, with
\* StopFlushAndCallback and OnStop (what a debouncer does under each stop
\* mode is in SpecDebouncer).
InitByKey ==
  /\ \E ttl \in IdleTTLs :
       /\ bk = NewDebouncerByKey(ttl, StopFlushAndCallback, TRUE)
       /\ bkPc = BkPcInit(ttl)
  /\ bkObs = BkObsInit
  /\ thr = ThrIdle.thr /\ thrPc = ThrIdle.thrPc /\ thrObs = ThrIdle.thrObs
  /\ deb = DebIdle.deb /\ debPc = DebIdle.debPc /\ debObs = DebIdle.debObs
  /\ coa = CoaIdle.coa /\ coaPc = CoaIdle.coaPc /\ coaObs = CoaIdle.coaObs
  /\ cdc = CdcIdle.cdc /\ cdcIo = CdcIdle.cdcIo
  /\ mc = McIdle.mc /\ mcIo = McIdle.mcIo

SpecByKey == InitByKey /\ [][BkNext]_vars

\* What NewCodecFromSecret returns for every configuration tried.
InitCodec ==
  /\ \E v \in Versions, m \in MacLens, a \in Alphabets, s \in Secrets, dk \in DomainKinds :
       cdc = NewCodecFromSecret([Secret |-> s, Version |-> v, MacLen |-> m,
                                 Alphabet |-> a, Domain |-> dk.domain, Kind |-> dk.kind])
  /\ cdcIo = CdcIoInit
  /\ mc = McIdle.mc /\ mcIo = McIdle.mcIo
  /\ thr = ThrIdle.thr /\ thrPc = ThrIdle.thrPc /\ thrObs = ThrIdle.thrObs
  /\ deb = DebIdle.deb /\ debPc = DebIdle.debPc /\ debObs = DebIdle.debObs
  /\ coa = CoaIdle.coa /\ coaPc = CoaIdle.coaPc /\ coaObs = CoaIdle.coaObs
  /\ bk = BkIdle.bk /\ bkPc = BkIdle.bkPc /\ bkObs = BkIdle.bkObs

SpecCodec == InitCodec /\ [][CdcNext]_vars

\* A codec whose subkeys are any four of the words tried.
InitPermutation ==
  /\ \E a \in SubKeys, b \in SubKeys, c \in SubKeys, d \in SubKeys :
       cdc = [NewCodecFromSecret(McConfig(1, 0, 1, << >>, Nil)) EXCEPT
                !.k1 = a, !.k2 = b, !.k3 = c, !.k4 = d]
  /\ cdcIo = CdcIoInit
  /\ mc = McIdle.mc /\ mcIo = McIdle.mcIo
  /\ thr = ThrIdle.thr /\ thrPc = ThrIdle.thrPc /\ thrObs = ThrIdle.thrObs
  /\ deb = DebIdle.deb /\ debPc = DebIdle.debPc /\ debObs = DebIdle.debObs
  /\ coa = CoaIdle.coa /\ coaPc = CoaIdle.coaPc /\ coaObs = CoaIdle.coaObs
  /\ bk = BkIdle.bk /\ bkPc = BkIdle.bkPc /\ bkObs = BkIdle.bkObs

SpecPermutation == InitPermutation /\ [][PermNext]_vars

\* A MultiCodec of a current codec and up to MaxOld older ones, each of
\* any of the configurations tried.
InitMulti ==
  /\ \E cur \in McConfigs, n \in 0..MaxOld :
       \E old \in [1..n -> McConfigs] : mc = NewMultiCodec(cur, old)
  /\ mcIo = McIoInit
  /\ cdc = CdcIdle.cdc /\ cdcIo = CdcIdle.cdcIo
  /\ thr = ThrIdle.thr /\ thrPc = ThrIdle.thrPc /\ thrObs = ThrIdle.thrObs
  /\ deb = DebIdle.deb /\ debPc = DebIdle.debPc /\ debObs = DebIdle.debObs
  /\ coa = CoaIdle.coa /\ coaPc = CoaIdle.coaPc /\ coaObs = CoaIdle.coaObs
  /\ bk = BkIdle.bk /\ bkPc = BkIdle.bkPc /\ bkObs = BkIdle.bkObs

SpecMulti == InitMulti /\ [][McNext]_vars

====
